---- MODULE Spec2Model ----
(***************************************************************************)
(* Model of the bytecode compiler (src/compiler/compiler.rs), its symbol   *)
(* table (src/compiler/symbol_table.rs), the instruction encoding          *)
(* (src/compiler/op_code.rs), the virtual machine (src/compiler/vm.rs) and *)
(* the REPL driver (src/compiler/main.rs).                                 *)
(*                                                                         *)
(* Offsets, indices and pointers are 0-based as in the source; a byte at   *)
(* offset p of a buffer b is b[p + 1].                                     *)
(***************************************************************************)
EXTENDS Integers, Sequences, FiniteSets, TLC

VARIABLES
    mode,             \* "test": Compiler::new and VM::new, one program (the
                      \* test harnesses); "repl": the loop of main
    overflow_checks,  \* whether the build checks integer overflow
    session,          \* the input: a member of Sessions
    line,             \* number of input lines consumed
    pc,               \* "read", "run", "exit" or "aborted" (a panic)
    symbol_table,     \* main's symbol_table
    constants,        \* main's constants
    globals,          \* main's globals
    compiler,         \* the compiler of the current line, after compile
    vm,               \* the VM of the current line
    output,           \* what the last line printed
    defines           \* under SymSpec: the number of define calls made on
                      \* each table of the chain so far

vars == << mode, overflow_checks, session, line, pc, symbol_table, constants,
           globals, compiler, vm, output, defines >>

\* ------------------------------------------------------------------ bounds

\* Width in bits of the modelled signed integer (i64 in the source): the
\* arithmetic is the source's, at this width.
IntBits == 12

\* Deepest countdown the corpus runs (set above MAX_FRAMES).
MaxDepth == 1030

\* ------------------------------------------------------- program constants

STACK_SIZE == 2048
GLOBAL_SIZE == 65536
MAX_FRAMES == 1024
PLACEHOLDER_ADDRESS == 0

\* ---------------------------------------------------------------- integers

IntMin == 0 - (2 ^ (IntBits - 1))
IntMax == (2 ^ (IntBits - 1)) - 1
InRange(x) == IntMin <= x /\ x <= IntMax
\* two's complement wrap-around of a result that left the range
Wrap(x) == ((x - IntMin) % (2 ^ IntBits)) + IntMin
Abs(x) == IF x < 0 THEN 0 - x ELSE x
\* Rust's / and % truncate toward zero
TruncDiv(a, b) ==
    IF (a < 0) = (b < 0) THEN Abs(a) \div Abs(b) ELSE 0 - (Abs(a) \div Abs(b))
TruncRem(a, b) == a - b * TruncDiv(a, b)

\* --------------------------------------------------------------- op_code.rs

\* The opcode enumeration; the discriminant of an opcode is its position - 1.
\* OpModulo and OpTailCall are used by compiler.rs and vm.rs.
Opcodes ==
    << "OpConst", "OpAdd", "OpPop", "OpSub", "OpMul", "OpDiv", "OpTrue",
       "OpFalse", "OpEqual", "OpNotEqual", "OpGreaterThan", "OpMinus",
       "OpBang", "OpJumpNotTruthy", "OpJump", "OpNull", "OpGetGlobal",
       "OpSetGlobal", "OpArray", "OpHash", "OpIndex", "OpCall",
       "OpReturnValue", "OpReturn", "OpGetLocal", "OpSetLocal",
       "OpGetBuiltin", "OpClosure", "OpGetFree", "OpCurrentClosure",
       "OpModulo", "OpTailCall" >>

OpByte(op) == (CHOOSE i \in 1..Len(Opcodes) : Opcodes[i] = op) - 1

\* cast_u8_to_opcode: panics on a byte that is no opcode ("Invalid")
cast_u8_to_opcode(b) == IF b < Len(Opcodes) THEN Opcodes[b + 1] ELSE "Invalid"

operand_widths(op) ==
    CASE op \in {"OpConst", "OpJumpNotTruthy", "OpJump", "OpGetGlobal",
                 "OpSetGlobal", "OpArray", "OpHash"} -> <<2>>
      [] op \in {"OpCall", "OpTailCall", "OpGetLocal", "OpSetLocal",
                 "OpGetBuiltin", "OpGetFree"} -> <<1>>
      [] op = "OpClosure" -> <<2, 1>>
      [] OTHER -> << >>

\* A variant of the operand encoding that writes a 2-byte operand low byte
\* first: C29_RoundTrip does not hold of it.
EncodeOperand_little_endian(operand, width) ==
    IF width = 2 THEN << operand % 256, (operand % 65536) \div 256 >>
    ELSE << operand % 256 >>

\* `operand as u16` big-endian, `operand as u8`: the casts keep the low bits
EncodeOperand(operand, width) ==
    IF width = 2 THEN << (operand % 65536) \div 256, operand % 256 >>
    ELSE << operand % 256 >>

RECURSIVE EncodeOperands(_, _)
EncodeOperands(operands, widths) ==
    IF operands = << >> THEN << >>
    ELSE EncodeOperand(Head(operands), Head(widths))
         \o EncodeOperands(Tail(operands), Tail(widths))

\* make: Err on an operand count mismatch, else the opcode byte and operands
make(op, operands) ==
    IF Len(operand_widths(op)) # Len(operands)
    THEN [ok |-> FALSE, bytes |-> << >>]
    ELSE [ok |-> TRUE,
          bytes |-> <<OpByte(op)>> \o EncodeOperands(operands, operand_widths(op))]

read_u16(bytes, p) == bytes[p + 1] * 256 + bytes[p + 2]
read_u8(bytes, p) == bytes[p + 1]

\* read_operands: the operands of the instruction whose operands start at
\* offset p, one per width
RECURSIVE read_operands(_, _, _)
read_operands(widths, bytes, p) ==
    IF widths = << >> THEN << >>
    ELSE IF Head(widths) = 2
    THEN <<read_u16(bytes, p)>> \o read_operands(Tail(widths), bytes, p + 2)
    ELSE <<read_u8(bytes, p)>> \o read_operands(Tail(widths), bytes, p + 1)

SumWidths(op) ==
    IF op = "OpClosure" THEN 3
    ELSE IF operand_widths(op) = << >> THEN 0 ELSE operand_widths(op)[1]

\* Instructions::disassemble from offset pos: one entry per instruction, with
\* its position, opcode and operands
RECURSIVE disassemble_from(_, _)
disassemble_from(bytes, pos) ==
    IF pos >= Len(bytes) THEN << >>
    ELSE << [pos |-> pos,
             op |-> cast_u8_to_opcode(bytes[pos + 1]),
             operands |-> read_operands(operand_widths(cast_u8_to_opcode(bytes[pos + 1])),
                                        bytes, pos + 1)] >>
         \o disassemble_from(bytes, pos + 1 + SumWidths(cast_u8_to_opcode(bytes[pos + 1])))

disassemble(bytes) == disassemble_from(bytes, 0)

\* ----------------------------------------------------------- symbol_table.rs

NoSymbols == [n \in {} |-> 0]

\* SymbolTable::new / new_enclosed: one table of the chain; `outer` is the
\* table before it in the chain (index 1 is the outermost table)
NewTable == [symbols |-> NoSymbols, free_symbols |-> << >>, num_definitions |-> 0]

HasOuter(st, d) == d > 1

\* A variant of define that gives a name already bound in the table its old
\* index back: C22_Define does not hold of it.
define_at_reuse(st, d, name) ==
    IF name \in DOMAIN st[d].symbols
    THEN LET symbol == [name |-> name,
                        scope |-> IF HasOuter(st, d) THEN "Local" ELSE "Global",
                        index |-> st[d].symbols[name].index]
         IN [st |-> [st EXCEPT ![d].symbols = (name :> symbol) @@ @], symbol |-> symbol]
    ELSE LET symbol == [name |-> name,
                        scope |-> IF HasOuter(st, d) THEN "Local" ELSE "Global",
                        index |-> st[d].num_definitions]
         IN [st |-> [st EXCEPT ![d].symbols = (name :> symbol) @@ @,
                               ![d].num_definitions = @ + 1],
             symbol |-> symbol]

\* define on the table at depth d: always takes the next index
define_at(st, d, name) ==
    LET symbol == [name |-> name,
                   scope |-> IF HasOuter(st, d) THEN "Local" ELSE "Global",
                   index |-> st[d].num_definitions]
    IN [st |-> [st EXCEPT ![d].symbols = (name :> symbol) @@ @,
                          ![d].num_definitions = @ + 1],
        symbol |-> symbol]

define(st, name) == define_at(st, Len(st), name)

define_builtin(st, index, name) ==
    [st EXCEPT ![Len(st)].symbols =
        (name :> [name |-> name, scope |-> "Builtin", index |-> index]) @@ @]

\* A variant of define_function_name that takes a local slot for the name:
\* C15_NumLocals does not hold of it.
define_function_name_counted(st, name) ==
    [st EXCEPT ![Len(st)].symbols =
        (name :> [name |-> name, scope |-> "Function", index |-> 0]) @@ @,
               ![Len(st)].num_definitions = @ + 1]

define_function_name(st, name) ==
    [st EXCEPT ![Len(st)].symbols =
        (name :> [name |-> name, scope |-> "Function", index |-> 0]) @@ @]

\* A variant of define_free that numbers every free symbol 0: C4_FreeVariables
\* does not hold of it.
define_free_same_index(st, d, original) ==
    LET symbol == [name |-> original.name, scope |-> "Free", index |-> 0]
    IN [st |-> [st EXCEPT ![d].free_symbols = Append(@, original),
                          ![d].symbols = (original.name :> symbol) @@ @],
        found |-> TRUE, symbol |-> symbol]

\* A variant of define_free that does not keep the Free symbol in the table,
\* so that the next resolve promotes again: C23_Promotion does not hold of it.
define_free_uncached(st, d, original) ==
    LET symbol == [name |-> original.name, scope |-> "Free",
                   index |-> Len(st[d].free_symbols)]
    IN [st |-> [st EXCEPT ![d].free_symbols = Append(@, original)],
        found |-> TRUE, symbol |-> symbol]

define_free(st, d, original) ==
    LET symbol == [name |-> original.name, scope |-> "Free",
                   index |-> Len(st[d].free_symbols)]
    IN [st |-> [st EXCEPT ![d].free_symbols = Append(@, original),
                          ![d].symbols = (original.name :> symbol) @@ @],
        found |-> TRUE, symbol |-> symbol]

define_free_checked(st, d, original) ==
    IF original.name \in DOMAIN st[d].symbols
    THEN [st |-> st, found |-> TRUE, symbol |-> st[d].symbols[original.name]]
    ELSE define_free(st, d, original)

NoSymbol == [name |-> "", scope |-> "None", index |-> 0]

\* A variant of resolve that promotes a Global of an enclosing table as well:
\* C24_GlobalsBuiltins does not hold of it.
RECURSIVE resolve_at_promote_global(_, _, _)
resolve_at_promote_global(st, d, name) ==
    IF name \in DOMAIN st[d].symbols
    THEN [st |-> st, found |-> TRUE, symbol |-> st[d].symbols[name]]
    ELSE IF HasOuter(st, d)
    THEN LET outer_symbol == resolve_at_promote_global(st, d - 1, name)
         IN IF outer_symbol.found
            THEN IF outer_symbol.symbol.scope \in {"Local", "Free", "Global"}
                 THEN define_free_checked(outer_symbol.st, d, outer_symbol.symbol)
                 ELSE outer_symbol
            ELSE [st |-> st, found |-> FALSE, symbol |-> NoSymbol]
    ELSE [st |-> st, found |-> FALSE, symbol |-> NoSymbol]

\* resolve on the table at depth d, recursing into its outer table
RECURSIVE resolve_at(_, _, _)
resolve_at(st, d, name) ==
    IF name \in DOMAIN st[d].symbols
    THEN [st |-> st, found |-> TRUE, symbol |-> st[d].symbols[name]]
    ELSE IF HasOuter(st, d)
    THEN LET outer_symbol == resolve_at(st, d - 1, name)
         IN IF outer_symbol.found
            THEN IF outer_symbol.symbol.scope \in {"Local", "Free"}
                 THEN define_free_checked(outer_symbol.st, d, outer_symbol.symbol)
                 ELSE outer_symbol
            ELSE [st |-> st, found |-> FALSE, symbol |-> NoSymbol]
    ELSE [st |-> st, found |-> FALSE, symbol |-> NoSymbol]

resolve(st, name) == resolve_at(st, Len(st), name)

\* define_builtin and define_function_name on the table at depth d
define_builtin_at(st, d, index, name) ==
    define_builtin(SubSeq(st, 1, d), index, name) \o SubSeq(st, d + 1, Len(st))
define_function_name_at(st, d, name) ==
    define_function_name(SubSeq(st, 1, d), name) \o SubSeq(st, d + 1, Len(st))

\* ------------------------------------------------------------------ objects

\* object::Object (src/object/object.rs)
IntegerObj(i) == [o |-> "Integer", i |-> i]
BooleanObj(b) == [o |-> "Boolean", b |-> b]
StringObj(s) == [o |-> "String", s |-> s]
NullObj == [o |-> "Null"]
ArrayObj(elems) == [o |-> "Array", elems |-> elems]
HashObj(pairs) == [o |-> "Hash", pairs |-> pairs]
BuiltinObj(index) == [o |-> "Builtin", f |-> index]
CompiledFunction(instructions, num_locals, num_parameters) ==
    [instructions |-> instructions, num_locals |-> num_locals,
     num_parameters |-> num_parameters]
CompiledFunctionObj(func) == [o |-> "CompiledFunction", func |-> func]
Closure(func, free) == [func |-> func, free |-> free]
ClosureObj(cl) == [o |-> "ClosureObj", cl |-> cl]

\* ---------------------------------------------------------------- the AST

\* parser::ast, as the compiler reads it
LetStmt(name, expr) == [k |-> "Let", name |-> name, expr |-> expr]
ReturnStmt(argument) == [k |-> "Return", argument |-> argument]
ExprStmt(expr) == [k |-> "Expr", expr |-> expr]
Ident(name) == [k |-> "IDENTIFIER", name |-> name]
IntLit(raw) == [k |-> "Integer", raw |-> raw]
BoolLit(raw) == [k |-> "Boolean", braw |-> raw]
StrLit(raw) == [k |-> "String", sraw |-> raw]
ArrayLit(elements) == [k |-> "Array", elements |-> elements]
HashLit(elements) == [k |-> "Hash", pairs |-> elements]
Prefix(op, operand) == [k |-> "PREFIX", op |-> op, operand |-> operand]
Infix(op, left, right) == [k |-> "INFIX", op |-> op, left |-> left, right |-> right]
If(condition, consequent) ==
    [k |-> "IF", condition |-> condition, consequent |-> consequent,
     has_alternate |-> FALSE, alternate |-> << >>]
IfElse(condition, consequent, alternate) ==
    [k |-> "IF", condition |-> condition, consequent |-> consequent,
     has_alternate |-> TRUE, alternate |-> alternate]
While(condition, body) == [k |-> "While", condition |-> condition, body |-> body]
Index(object, index) == [k |-> "Index", object |-> object, index |-> index]
Function(name, params, body) ==
    [k |-> "FUNCTION", name |-> name, params |-> params, body |-> body]
FunctionCall(callee, arguments) ==
    [k |-> "FunctionCall", callee |-> callee, arguments |-> arguments]

\* parse_let_statement: a function literal bound by let carries the let's name
Let(name, expr) ==
    LetStmt(name, IF expr.k = "FUNCTION" THEN [expr EXCEPT !.name = name] ELSE expr)

\* -------------------------------------------------------------- compiler.rs

EmittedInstruction(opcode, position) == [opcode |-> opcode, position |-> position]

\* CompilationScope::default
NewScope ==
    [instructions |-> << >>,
     last_instruction |-> EmittedInstruction("OpNull", 0),
     previous_instruction |-> EmittedInstruction("OpNull", 0)]

\* The compiler's fields, with the outcome of the compile call so far in `res`
\* ("ok", "err" with the CompileError in `msg`, or "panic": the process
\* aborted).
Fail(c, msg) == [c EXCEPT !.res = "err", !.msg = msg]
Panic(c) == [c EXCEPT !.res = "panic"]

current_scope(c) == c.scopes[c.scope_index + 1]
current_instruction(c) == current_scope(c).instructions

\* A variant of add_constant that does not add an object the pool already
\* holds: C25_AppendOnly does not hold of it.
add_constant_dedup(c, obj) ==
    IF \E k \in 1..Len(c.constants) : c.constants[k] = obj THEN c
    ELSE [c EXCEPT !.constants = Append(@, obj)]

add_constant(c, obj) == [c EXCEPT !.constants = Append(@, obj)]
\* the index add_constant returns
last_constant(c) == Len(c.constants) - 1

\* last_instruction describes the instruction that ends the buffer of the
\* current scope
LastDescribes(c) ==
    LET ins == current_instruction(c)
        last == current_scope(c).last_instruction
    IN \/ ins = << >>
       \/ /\ last.position < Len(ins)
          /\ cast_u8_to_opcode(ins[last.position + 1]) = last.opcode
          /\ last.position + 1 + SumWidths(last.opcode) = Len(ins)

\* previous_instruction describes the instruction just before the last one
PreviousDescribes(c) ==
    LET ins == current_instruction(c)
        last == current_scope(c).last_instruction
        previous == current_scope(c).previous_instruction
    IN /\ previous.position < Len(ins)
       /\ cast_u8_to_opcode(ins[previous.position + 1]) = previous.opcode
       /\ previous.position + 1 + SumWidths(previous.opcode) = last.position

\* history: `bookkeeping` stays TRUE as long as every check made so far held
Audit(c, ok) == [c EXCEPT !.bookkeeping = @ /\ ok]
AuditLast(c) == IF c.res = "ok" THEN Audit(c, LastDescribes(c)) ELSE c

\* A variant of set_last_instruction that does not move the old last
\* instruction to previous_instruction: C39_Peephole does not hold of it.
set_last_instruction_only(c, op, pos) ==
    [c EXCEPT !.scopes[c.scope_index + 1].last_instruction =
                  EmittedInstruction(op, pos)]

set_last_instruction(c, op, pos) ==
    [c EXCEPT !.scopes[c.scope_index + 1].previous_instruction =
                  c.scopes[c.scope_index + 1].last_instruction,
              !.scopes[c.scope_index + 1].last_instruction =
                  EmittedInstruction(op, pos)]

add_instructions(c, ins) ==
    [c EXCEPT !.scopes[c.scope_index + 1].instructions = @ \o ins]

\* emit: make_instructions unwraps the result of make
emit(c, op, operands) ==
    LET ins == make(op, operands)
        pos == Len(current_instruction(c))
    IN IF ~ins.ok THEN Panic(c)
       ELSE AuditLast(set_last_instruction(add_instructions(c, ins.bytes), op, pos))

last_instruction_is(c, op) ==
    IF current_instruction(c) = << >> THEN FALSE
    ELSE current_scope(c).last_instruction.opcode = op

remove_last_pop(c) ==
    LET last == current_scope(c).last_instruction
        previous == current_scope(c).previous_instruction
    IN AuditLast(
         [Audit(c, PreviousDescribes(c) /\ last.position + 1 = Len(current_instruction(c)))
             EXCEPT !.scopes[c.scope_index + 1].instructions =
                        SubSeq(@, 1, IF last.position < Len(@) THEN last.position ELSE Len(@)),
                    !.scopes[c.scope_index + 1].last_instruction = previous])

\* Vec::splice(pos..pos + len) panics when the range leaves the buffer
replace_instruction(c, pos, new_instruction) ==
    LET ins == current_instruction(c)
        n == Len(new_instruction)
    IN IF pos + n > Len(ins) THEN Panic(c)
       ELSE [c EXCEPT !.scopes[c.scope_index + 1].instructions =
                [i \in 1..Len(ins) |->
                    IF i > pos /\ i <= pos + n THEN new_instruction[i - pos] ELSE ins[i]]]

replace_last_pop_with_return(c) ==
    LET last_pos == current_scope(c).last_instruction.position
        c1 == replace_instruction(c, last_pos, make("OpReturnValue", << >>).bytes)
    IN IF c1.res # "ok" THEN c1
       ELSE AuditLast(
              [c1 EXCEPT !.scopes[c.scope_index + 1].last_instruction.opcode = "OpReturnValue"])

\* A variant of change_operand that patches one byte past the target:
\* C14_JumpTargets does not hold of it.
change_operand_past(c, pos, operand) ==
    IF pos >= Len(current_instruction(c)) THEN Panic(c)
    ELSE LET op == cast_u8_to_opcode(current_instruction(c)[pos + 1])
             ins == make(op, <<operand + 1>>)
         IN IF op = "Invalid" \/ ~ins.ok THEN Panic(c)
            ELSE replace_instruction(c, pos, ins.bytes)

change_operand(c, pos, operand) ==
    IF pos >= Len(current_instruction(c)) THEN Panic(c)
    ELSE LET op == cast_u8_to_opcode(current_instruction(c)[pos + 1])
             ins == make(op, <<operand>>)
         IN IF op = "Invalid" \/ ~ins.ok THEN Panic(c)
            ELSE replace_instruction(c, pos, ins.bytes)

enter_scope(c) ==
    [c EXCEPT !.scopes = Append(@, NewScope),
              !.scope_index = @ + 1,
              !.symbol_table = Append(@, NewTable)]

\* leave_scope; the instructions it returns are read before it is applied
leave_scope(c) ==
    IF Len(c.symbol_table) <= 1 \/ c.scope_index = 0 THEN Panic(c)
    ELSE [c EXCEPT !.scopes = SubSeq(@, 1, Len(@) - 1),
                   !.scope_index = @ - 1,
                   !.symbol_table = SubSeq(@, 1, Len(@) - 1)]

load_symbol(c, symbol) ==
    CASE symbol.scope = "Global" -> emit(c, "OpGetGlobal", <<symbol.index>>)
      [] symbol.scope = "Local" -> emit(c, "OpGetLocal", <<symbol.index>>)
      [] symbol.scope = "Builtin" -> emit(c, "OpGetBuiltin", <<symbol.index>>)
      [] symbol.scope = "Free" -> emit(c, "OpGetFree", <<symbol.index>>)
      [] symbol.scope = "Function" -> emit(c, "OpCurrentClosure", << >>)

RECURSIVE load_symbols(_, _)
load_symbols(c, symbols) ==
    IF symbols = << >> \/ c.res # "ok" THEN c
    ELSE load_symbols(load_symbol(c, Head(symbols)), Tail(symbols))

RECURSIVE define_params(_, _)
define_params(st, params) ==
    IF params = << >> THEN st
    ELSE define_params(define(st, Head(params)).st, Tail(params))

is_tail_recursive_call(body, name) ==
    IF name = "" THEN FALSE
    ELSE IF body # << >>
            /\ body[Len(body)].k = "Expr"
            /\ body[Len(body)].expr.k = "FunctionCall"
            /\ body[Len(body)].expr.callee.k = "IDENTIFIER"
         THEN body[Len(body)].expr.callee.name = name
         ELSE FALSE

\* A variant of the FUNCTION arm that leaves the final self-call an OpCall:
\* C3_TailCall does not hold of it.
TailCallRewrite_none(c, f) == c

\* the rewrite of the final self-call: the opcode byte of previous_instruction
TailCallRewrite(c, f) ==
    IF is_tail_recursive_call(f.body, f.name)
    THEN LET prev == current_scope(c).previous_instruction
         IN IF prev.opcode = "OpCall"
            THEN IF prev.position >= Len(current_instruction(c)) THEN Panic(c)
                 ELSE [Audit(c, PreviousDescribes(c))
                          EXCEPT !.scopes[c.scope_index + 1].instructions[prev.position + 1] =
                                    OpByte("OpTailCall")]
            ELSE Audit(c, PreviousDescribes(c))
    ELSE c

\* An integer result computed by the compiler or the VM with the host's
\* operators: a result outside the range aborts the process in a build with
\* overflow checks and wraps in a build without them.
Overflows(x) == ~InRange(x)

\* the folded constant, emitted as OpConst
FoldInteger(c, x) ==
    IF Overflows(x) /\ overflow_checks THEN Panic(c)
    ELSE LET c1 == add_constant(c, IntegerObj(Wrap(x)))
         IN emit(c1, "OpConst", <<last_constant(c1)>>)

\* A variant of the boolean fold that emits the opposite constant:
\* C16_FoldPreserves does not hold of it.
FoldBoolean_inverted(c, b) == IF b THEN emit(c, "OpFalse", << >>) ELSE emit(c, "OpTrue", << >>)

FoldBoolean(c, b) == IF b THEN emit(c, "OpTrue", << >>) ELSE emit(c, "OpFalse", << >>)

try_constant_fold_prefix(c, prefix) ==
    IF prefix.op = "MINUS" /\ prefix.operand.k = "Integer"
    THEN [some |-> TRUE, c |-> FoldInteger(c, 0 - prefix.operand.raw)]
    ELSE IF prefix.op = "BANG" /\ prefix.operand.k = "Boolean"
    THEN [some |-> TRUE, c |-> FoldBoolean(c, ~prefix.operand.braw)]
    ELSE [some |-> FALSE, c |-> c]

\* A variant of the fold that folds a division or modulo by the literal 0 to
\* 0: C30_NoFoldByZero does not hold of it.
try_constant_fold_infix_by_zero(c, infix) ==
    IF infix.left.k = "Integer" /\ infix.right.k = "Integer"
       /\ infix.op \in {"SLASH", "PERCENT"}
    THEN [some |-> TRUE, c |-> emit(add_constant(c, IntegerObj(0)), "OpConst",
                                    <<Len(c.constants)>>)]
    ELSE [some |-> FALSE, c |-> c]

\* left / right and left % right abort on MIN / -1 in every build
DivOverflows(left, right) == left = IntMin /\ right = 0 - 1

try_constant_fold_infix(c, infix) ==
    IF infix.left.k = "Integer" /\ infix.right.k = "Integer"
    THEN LET left == infix.left.raw
             right == infix.right.raw
         IN CASE infix.op = "PLUS" -> [some |-> TRUE, c |-> FoldInteger(c, left + right)]
              [] infix.op = "MINUS" -> [some |-> TRUE, c |-> FoldInteger(c, left - right)]
              [] infix.op = "ASTERISK" -> [some |-> TRUE, c |-> FoldInteger(c, left * right)]
              [] infix.op = "SLASH" ->
                    IF right = 0 THEN [some |-> FALSE, c |-> c]
                    ELSE IF DivOverflows(left, right) THEN [some |-> TRUE, c |-> Panic(c)]
                    ELSE [some |-> TRUE, c |-> FoldInteger(c, TruncDiv(left, right))]
              [] infix.op = "PERCENT" ->
                    IF right = 0 THEN [some |-> FALSE, c |-> c]
                    ELSE IF DivOverflows(left, right) THEN [some |-> TRUE, c |-> Panic(c)]
                    ELSE [some |-> TRUE, c |-> FoldInteger(c, TruncRem(left, right))]
              [] infix.op = "GT" -> [some |-> TRUE, c |-> FoldBoolean(c, left > right)]
              [] infix.op = "LT" -> [some |-> TRUE, c |-> FoldBoolean(c, left < right)]
              [] infix.op = "GTE" -> [some |-> TRUE, c |-> FoldBoolean(c, left >= right)]
              [] infix.op = "LTE" -> [some |-> TRUE, c |-> FoldBoolean(c, left <= right)]
              [] infix.op = "EQ" -> [some |-> TRUE, c |-> FoldBoolean(c, left = right)]
              [] infix.op = "NotEq" -> [some |-> TRUE, c |-> FoldBoolean(c, left # right)]
              [] OTHER -> [some |-> FALSE, c |-> c]
    ELSE [some |-> FALSE, c |-> c]

InfixOpcode(op) ==
    CASE op = "PLUS" -> "OpAdd"
      [] op = "MINUS" -> "OpSub"
      [] op = "ASTERISK" -> "OpMul"
      [] op = "SLASH" -> "OpDiv"
      [] op = "PERCENT" -> "OpModulo"
      [] op = "GT" -> "OpGreaterThan"
      [] op = "EQ" -> "OpEqual"
      [] op = "NotEq" -> "OpNotEqual"
      [] OTHER -> "Invalid"

\* emit(op) when the compilation so far succeeded
Then(c, op, operands) == IF c.res # "ok" THEN c ELSE emit(c, op, operands)

RECURSIVE compile_stmt(_, _)
RECURSIVE compile_expr(_, _)
RECURSIVE compile_block_statement(_, _)
RECURSIVE compile_exprs(_, _)
RECURSIVE compile_pairs(_, _)

\* the statements of a block, or of a Program, in order; stops at the first error
compile_block_statement(c, body) ==
    IF body = << >> \/ c.res # "ok" THEN c
    ELSE compile_block_statement(compile_stmt(c, Head(body)), Tail(body))

compile_exprs(c, es) ==
    IF es = << >> \/ c.res # "ok" THEN c
    ELSE compile_exprs(compile_expr(c, Head(es)), Tail(es))

compile_pairs(c, ps) ==
    IF ps = << >> \/ c.res # "ok" THEN c
    ELSE compile_pairs(compile_exprs(c, <<Head(ps)[1], Head(ps)[2]>>), Tail(ps))

\* the Let arm of compile_stmt: the expression, then define, then the store
compile_let(c, name, c1) ==
    IF c1.res # "ok" THEN c1
    ELSE LET d == define(c1.symbol_table, name)
             c2 == [c1 EXCEPT !.symbol_table = d.st]
         IN IF d.symbol.scope = "Global"
            THEN emit(c2, "OpSetGlobal", <<d.symbol.index>>)
            ELSE emit(c2, "OpSetLocal", <<d.symbol.index>>)

compile_stmt(c, s) ==
    CASE s.k = "Let" -> compile_let(c, s.name, compile_expr(c, s.expr))
      [] s.k = "Return" -> Then(compile_expr(c, s.argument), "OpReturnValue", << >>)
      [] s.k = "Expr" -> Then(compile_expr(c, s.expr), "OpPop", << >>)

\* A variant of the IDENTIFIER arm that loads Null for a name it cannot
\* resolve: C9_UndefinedVariable does not hold of it.
compile_identifier_lenient(c, name) ==
    LET r == resolve(c.symbol_table, name)
    IN IF r.found THEN load_symbol([c EXCEPT !.symbol_table = r.st], r.symbol)
       ELSE emit(c, "OpNull", << >>)

\* the IDENTIFIER arm
compile_identifier(c, name) ==
    LET r == resolve(c.symbol_table, name)
    IN IF r.found THEN load_symbol([c EXCEPT !.symbol_table = r.st], r.symbol)
       ELSE Fail(c, <<"Undefined variable", name>>)

\* `if self.last_instruction_is(OpPop) { self.remove_last_pop() }`
StripPop(c) == IF c.res = "ok" /\ last_instruction_is(c, "OpPop") THEN remove_last_pop(c) ELSE c

\* the back-patch of a jump emitted at pos to the current end of the buffer
PatchHere(c, pos) ==
    IF c.res # "ok" THEN c ELSE change_operand(c, pos, Len(current_instruction(c)))

\* the IF arm from the alternative on; c5 has the conditional jump patched
compile_if_alternate(c5, e, jump_pos) ==
    PatchHere(IF e.has_alternate
              THEN StripPop(compile_block_statement(c5, e.alternate))
              ELSE Then(c5, "OpNull", << >>),
              jump_pos)

\* the IF arm from the jump over the alternative on; c3 has the consequent
compile_if_jump(c3, e, jump_not_truthy) ==
    compile_if_alternate(
        PatchHere(Then(c3, "OpJump", <<PLACEHOLDER_ADDRESS>>), jump_not_truthy),
        e, Len(current_instruction(c3)))

\* the IF arm from the conditional jump on; c1 has the condition
compile_if_consequent(c1, e) ==
    compile_if_jump(
        StripPop(compile_block_statement(
            Then(c1, "OpJumpNotTruthy", <<PLACEHOLDER_ADDRESS>>), e.consequent)),
        e, Len(current_instruction(c1)))

compile_if(c, e) == compile_if_consequent(compile_expr(c, e.condition), e)

\* the While arm from the conditional jump on; c1 has the condition
compile_while_body(c1, e, loop_start) ==
    Then(PatchHere(Then(compile_block_statement(
                            Then(c1, "OpJumpNotTruthy", <<PLACEHOLDER_ADDRESS>>),
                            e.body),
                        "OpJump", <<loop_start>>),
                   Len(current_instruction(c1))),
         "OpNull", << >>)

compile_while(c, e) ==
    compile_while_body(compile_expr(c, e.condition), e, Len(current_instruction(c)))

\* the innermost symbol table: the one of the function being compiled
function_table(c) == c.symbol_table[Len(c.symbol_table)]

\* the FUNCTION arm: the constant and OpClosure, after the free loads
emit_closure(c8, func, num_free) ==
    IF c8.res # "ok" THEN c8
    ELSE emit(add_constant(c8, CompiledFunctionObj(func)), "OpClosure",
              <<Len(c8.constants), num_free>>)

\* the FUNCTION arm from num_locals on; c6 has the body with its return
close_function(c6, f) ==
    IF c6.res # "ok" THEN c6
    ELSE emit_closure(
             load_symbols(leave_scope(c6), function_table(c6).free_symbols),
             CompiledFunction(current_instruction(c6),
                              function_table(c6).num_definitions, Len(f.params)),
             Len(function_table(c6).free_symbols))

\* `if !self.last_instruction_is(OpReturnValue) { self.emit(OpReturn) }`
\* A variant of the FUNCTION arm that appends no OpReturn: C26_FunctionEnds
\* does not hold of it.
implicit_return_none(c5) == c5

implicit_return(c5) ==
    IF c5.res = "ok" /\ ~last_instruction_is(c5, "OpReturnValue")
    THEN emit(c5, "OpReturn", << >>) ELSE c5

PopToReturn(t) == IF t.res # "ok" THEN t ELSE replace_last_pop_with_return(t)

\* the FUNCTION arm after the body has been compiled in c4
finish_function(c4, f) ==
    IF c4.res # "ok" THEN c4
    ELSE close_function(
             implicit_return(IF last_instruction_is(c4, "OpPop")
                             THEN PopToReturn(TailCallRewrite(c4, f))
                             ELSE c4),
             f)

\* the FUNCTION arm up to the body
open_function(c, f) ==
    [enter_scope(c) EXCEPT !.symbol_table =
        define_params(IF f.name # "" THEN define_function_name(@, f.name) ELSE @,
                      f.params)]

\* the PREFIX arm after the operand
emit_prefix(c1, e) ==
    CASE e.op = "MINUS" -> Then(c1, "OpMinus", << >>)
      [] e.op = "BANG" -> Then(c1, "OpBang", << >>)
      [] OTHER -> IF c1.res # "ok" THEN c1
                  ELSE Fail(c1, <<"unexpected prefix op", e.op>>)

compile_prefix(c, e, folded) ==
    IF folded.some THEN folded.c ELSE emit_prefix(compile_expr(c, e.operand), e)

\* the INFIX arm after both operands, for the operators without a rewrite
emit_infix(c1, e) ==
    IF c1.res # "ok" THEN c1
    ELSE IF InfixOpcode(e.op) = "Invalid"
    THEN Fail(c1, <<"unexpected infix op", e.op>>)
    ELSE emit(c1, InfixOpcode(e.op), << >>)

\* A variant of the INFIX arm that compiles the operands of < left then right:
\* C17_Comparisons does not hold of it.
compile_infix_unswapped(c, e, folded) ==
    IF folded.some THEN folded.c
    ELSE IF e.op = "LT"
    THEN Then(compile_exprs(c, <<e.left, e.right>>), "OpGreaterThan", << >>)
    ELSE IF e.op = "LTE"
    THEN Then(Then(compile_exprs(c, <<e.left, e.right>>),
                   "OpGreaterThan", << >>), "OpBang", << >>)
    ELSE IF e.op = "GTE"
    THEN Then(Then(compile_exprs(c, <<e.right, e.left>>),
                   "OpGreaterThan", << >>), "OpBang", << >>)
    ELSE emit_infix(compile_exprs(c, <<e.left, e.right>>), e)

compile_infix(c, e, folded) ==
    IF folded.some THEN folded.c
    ELSE IF e.op = "LT"
    THEN Then(compile_exprs(c, <<e.right, e.left>>), "OpGreaterThan", << >>)
    ELSE IF e.op = "LTE"
    THEN Then(Then(compile_exprs(c, <<e.left, e.right>>),
                   "OpGreaterThan", << >>), "OpBang", << >>)
    ELSE IF e.op = "GTE"
    THEN Then(Then(compile_exprs(c, <<e.right, e.left>>),
                   "OpGreaterThan", << >>), "OpBang", << >>)
    ELSE emit_infix(compile_exprs(c, <<e.left, e.right>>), e)

compile_expr(c, e) ==
    IF c.res # "ok" THEN c
    ELSE CASE e.k = "IDENTIFIER" -> compile_identifier(c, e.name)
      [] e.k = "Integer" ->
            LET c1 == add_constant(c, IntegerObj(e.raw))
            IN emit(c1, "OpConst", <<last_constant(c1)>>)
      [] e.k = "Boolean" ->
            IF e.braw THEN emit(c, "OpTrue", << >>) ELSE emit(c, "OpFalse", << >>)
      [] e.k = "String" ->
            LET c1 == add_constant(c, StringObj(e.sraw))
            IN emit(c1, "OpConst", <<last_constant(c1)>>)
      [] e.k = "Array" ->
            Then(compile_exprs(c, e.elements), "OpArray", <<Len(e.elements)>>)
      [] e.k = "Hash" ->
            Then(compile_pairs(c, e.pairs), "OpHash", <<Len(e.pairs) * 2>>)
      [] e.k = "PREFIX" -> compile_prefix(c, e, try_constant_fold_prefix(c, e))
      [] e.k = "INFIX" -> compile_infix(c, e, try_constant_fold_infix(c, e))
      [] e.k = "IF" -> compile_if(c, e)
      [] e.k = "While" -> compile_while(c, e)
      [] e.k = "Index" ->
            Then(compile_exprs(c, <<e.object, e.index>>), "OpIndex", << >>)
      [] e.k = "FUNCTION" ->
            finish_function(compile_block_statement(open_function(c, e), e.body), e)
      [] e.k = "FunctionCall" ->
            Then(compile_exprs(compile_expr(c, e.callee), e.arguments),
                 "OpCall", <<Len(e.arguments)>>)

\* Bytecode: the instructions of the current scope and the constant pool
bytecode(c) == [instructions |-> current_instruction(c), constants |-> c.constants]

\* -------------------------------------------------------------------- vm.rs

\* vm::Value
IntegerV(i) == [v |-> "Integer", i |-> i]
BooleanV(b) == [v |-> "Boolean", b |-> b]
NullV == [v |-> "Null"]
ObjectV(obj) == [v |-> "Object", obj |-> obj]

from_object(obj) ==
    CASE obj.o = "Integer" -> IntegerV(obj.i)
      [] obj.o = "Boolean" -> BooleanV(obj.b)
      [] obj.o = "Null" -> NullV
      [] OTHER -> ObjectV(obj)

into_rc_object(val) ==
    CASE val.v = "Integer" -> IntegerObj(val.i)
      [] val.v = "Boolean" -> BooleanObj(val.b)
      [] val.v = "Null" -> NullObj
      [] OTHER -> val.obj

\* A variant of is_truthy that takes the integer 0 for false:
\* C19_JumpNotTruthy does not hold of it.
is_truthy_zero_falsy(val) ==
    CASE val.v = "Boolean" -> val.b
      [] val.v = "Null" -> FALSE
      [] val.v = "Integer" -> val.i # 0
      [] OTHER -> TRUE

is_truthy(val) ==
    CASE val.v = "Boolean" -> val.b
      [] val.v = "Null" -> FALSE
      [] OTHER -> TRUE

type_name(val) ==
    CASE val.v = "Integer" -> "INTEGER"
      [] val.v = "Boolean" -> "BOOLEAN"
      [] val.v = "Null" -> "NULL"
      [] OTHER -> CASE val.obj.o = "String" -> "STRING"
                    [] val.obj.o = "Array" -> "ARRAY"
                    [] val.obj.o = "Hash" -> "HASH"
                    [] val.obj.o = "ClosureObj" -> "CLOSURE"
                    [] val.obj.o = "Builtin" -> "BUILTIN"
                    [] OTHER -> "OBJECT"

\* A fixed-size array of Values (the stack, the globals) is held as the
\* sequence of its slots up to the highest one written; the slots above hold
\* Null, as VM::new fills them.
SlotGet(slots, i) == IF i < Len(slots) THEN slots[i + 1] ELSE NullV
SlotSet(slots, i, val) ==
    [j \in 1..(IF i + 1 > Len(slots) THEN i + 1 ELSE Len(slots)) |->
        IF j = i + 1 THEN val ELSE IF j <= Len(slots) THEN slots[j] ELSE NullV]

\* frame.rs
Frame(closure, base_pointer) ==
    [closure |-> closure, ip |-> 0 - 1, base_pointer |-> base_pointer]

RECURSIVE MapFromObject(_)
MapFromObject(objs) ==
    IF objs = << >> THEN << >>
    ELSE <<from_object(Head(objs))>> \o MapFromObject(Tail(objs))

\* VM::new: the main frame wraps the top-level instructions
NewVM(bc) ==
    [constants |-> MapFromObject(bc.constants),
     stack |-> << >>,
     sp |-> 0,
     globals |-> << >>,
     frames |-> << Frame(Closure(CompiledFunction(bc.instructions, 0, 0), << >>), 0) >>,
     frame_index |-> 1,
     res |-> "running",
     error |-> << >>]

new_with_global_store(bc, gl) == [NewVM(bc) EXCEPT !.globals = gl]

\* the VM before any line has been run
NoVM == [NewVM([instructions |-> << >>, constants |-> << >>]) EXCEPT !.res = "none"]

VMErr(m, e) == [m EXCEPT !.res = "err", !.error = e]
VMPanic(m) == [m EXCEPT !.res = "panic"]

\* a usize that wrapped below zero in a build without overflow checks is held
\* as a negative number; it is above every bound
USizeGe(x, n) == x < 0 \/ x >= n

push(m, val) ==
    IF m.res # "running" THEN m
    ELSE IF USizeGe(m.sp, STACK_SIZE) THEN VMErr(m, <<"StackOverflow">>)
    ELSE [m EXCEPT !.stack = SlotSet(@, m.sp, val), !.sp = @ + 1]

\* pop: stack[sp - 1] aborts when sp = 0 (the subtraction, or the index)
CanPop(m, n) == m.sp >= n /\ m.sp <= STACK_SIZE
Top(m, k) == SlotGet(m.stack, m.sp - 1 - k)
pop(m) == IF ~CanPop(m, 1) THEN VMPanic(m) ELSE [m EXCEPT !.sp = @ - 1]

current_frame(m) == m.frames[m.frame_index]
Ins(m) == current_frame(m).closure.func.instructions
\* the offset of the opcode the next iteration of run dispatches
Ip(m) == current_frame(m).ip + 1
Advance(m, n) == [m EXCEPT !.frames[m.frame_index].ip = @ + n]
SetIp(m, ip) == [m EXCEPT !.frames[m.frame_index].ip = ip]
Operand16(m) == read_u16(Ins(m), Ip(m) + 1)
Operand8(m) == read_u8(Ins(m), Ip(m) + 1)
Operand8At(m, k) == read_u8(Ins(m), Ip(m) + k)

push_frame(m, frame) ==
    IF m.frame_index >= MAX_FRAMES THEN VMPanic(m)
    ELSE [m EXCEPT !.frames = Append(SubSeq(@, 1, m.frame_index), frame),
                   !.frame_index = @ + 1]

\* pop_frame; the frame it returns is current_frame(m)
pop_frame(m) ==
    [m EXCEPT !.frame_index = @ - 1, !.frames = SubSeq(@, 1, m.frame_index - 1)]

\* an integer result of the host's operators (see FoldInteger)
IntResult(m, x) ==
    IF Overflows(x) /\ overflow_checks THEN VMPanic(m) ELSE push(m, IntegerV(Wrap(x)))

BinaryTypeError(opcode, left, right) ==
    <<"TypeError", "unsupported binary operation", opcode, type_name(left), type_name(right)>>

execute_binary_operation(m0, opcode) ==
    LET right == Top(m0, 0)
        left == Top(m0, 1)
        m == pop(pop(m0))
    IN IF m.res # "running" THEN m
       ELSE IF left.v = "Integer" /\ right.v = "Integer"
       THEN CASE opcode = "OpAdd" -> IntResult(m, left.i + right.i)
              [] opcode = "OpSub" -> IntResult(m, left.i - right.i)
              [] opcode = "OpMul" -> IntResult(m, left.i * right.i)
              [] opcode = "OpDiv" ->
                    IF right.i = 0 \/ DivOverflows(left.i, right.i) THEN VMPanic(m)
                    ELSE IntResult(m, TruncDiv(left.i, right.i))
              [] opcode = "OpModulo" ->
                    IF right.i = 0 \/ DivOverflows(left.i, right.i) THEN VMPanic(m)
                    ELSE IntResult(m, TruncRem(left.i, right.i))
              [] OTHER -> VMErr(m, <<"TypeError", "unknown integer operator", opcode>>)
       ELSE IF left.v = "Object" /\ right.v = "Object"
       THEN IF left.obj.o = "String" /\ right.obj.o = "String" /\ opcode = "OpAdd"
            THEN push(m, ObjectV(StringObj(left.obj.s \o right.obj.s)))
            ELSE VMErr(m, BinaryTypeError(opcode, left, right))
       ELSE VMErr(m, BinaryTypeError(opcode, left, right))

execute_comparison(m0, opcode) ==
    LET right == Top(m0, 0)
        left == Top(m0, 1)
        m == pop(pop(m0))
    IN IF m.res # "running" THEN m
       ELSE IF left.v = "Integer" /\ right.v = "Integer"
       THEN CASE opcode = "OpEqual" -> push(m, BooleanV(left.i = right.i))
              [] opcode = "OpNotEqual" -> push(m, BooleanV(left.i # right.i))
              [] opcode = "OpGreaterThan" -> push(m, BooleanV(left.i > right.i))
              [] OTHER -> VMErr(m, <<"TypeError", "unknown comparison operator", opcode>>)
       ELSE IF left.v = "Boolean" /\ right.v = "Boolean"
       THEN CASE opcode = "OpEqual" -> push(m, BooleanV(left.b = right.b))
              [] opcode = "OpNotEqual" -> push(m, BooleanV(left.b # right.b))
              [] OTHER -> VMErr(m, <<"TypeError", "unknown boolean comparison operator", opcode>>)
       ELSE VMErr(m, <<"TypeError", "unsupported comparison", type_name(left), type_name(right)>>)

\* A variant of OpMinus that takes a Boolean operand for 0 or 1:
\* C21_TypeErrors does not hold of it.
execute_minus_operation_lenient(m0) ==
    LET operand == Top(m0, 0)
        m == pop(m0)
    IN IF m.res # "running" THEN m
       ELSE IF operand.v = "Integer" THEN IntResult(m, 0 - operand.i)
       ELSE IF operand.v = "Boolean" THEN push(m, IntegerV(IF operand.b THEN 0 - 1 ELSE 0))
       ELSE VMErr(m, <<"TypeError", "unsupported negation", type_name(operand)>>)

execute_minus_operation(m0) ==
    LET operand == Top(m0, 0)
        m == pop(m0)
    IN IF m.res # "running" THEN m
       ELSE IF operand.v = "Integer" THEN IntResult(m, 0 - operand.i)
       ELSE VMErr(m, <<"TypeError", "unsupported negation", type_name(operand)>>)

\* A variant of OpBang that negates the truthiness of its operand, so that
\* !Null is true: C20_Bang does not hold of it.
execute_bang_operation_truthy(m0) ==
    LET operand == Top(m0, 0)
        m == pop(m0)
    IN IF m.res # "running" THEN m
       ELSE push(m, BooleanV(~is_truthy(operand)))

execute_bang_operation(m0) ==
    LET operand == Top(m0, 0)
        m == pop(m0)
    IN IF m.res # "running" THEN m
       ELSE IF operand.v = "Boolean" THEN push(m, BooleanV(~operand.b))
       ELSE push(m, BooleanV(FALSE))

\* last_popped_stack_elm: stack.get(sp)
last_popped_stack_elm(m) ==
    IF USizeGe(m.sp, STACK_SIZE) THEN [some |-> FALSE, val |-> NullV]
    ELSE [some |-> TRUE, val |-> SlotGet(m.stack, m.sp)]

\* HashKey::try_from (src/object/object.rs)
is_hashable(obj) == obj.o \in {"Integer", "Boolean", "String"}
HashKeyOf(obj) ==
    CASE obj.o = "Integer" -> [hk |-> "Integer", i |-> obj.i]
      [] obj.o = "Boolean" -> [hk |-> "Boolean", b |-> obj.b]
      [] obj.o = "String" -> [hk |-> "String", s |-> obj.s]

NoPairs == [n \in {} |-> 0]

\* build_array(start, end): the stack slots start..end-1 as objects
build_array(m, start, end) ==
    [j \in 1..(end - start) |-> into_rc_object(SlotGet(m.stack, start + j - 1))]

\* build_hash(start, end): `expect` aborts on a key that is not hashable;
\* a later pair replaces an earlier one with the same key
RECURSIVE build_hash(_, _, _, _)
build_hash(m, i, end, elements) ==
    IF i >= end THEN [ok |-> TRUE, elements |-> elements]
    ELSE LET key == into_rc_object(SlotGet(m.stack, i))
             value == into_rc_object(SlotGet(m.stack, i + 1))
         IN IF ~is_hashable(key) THEN [ok |-> FALSE, elements |-> elements]
            ELSE build_hash(m, i + 2, end,
                    [hk \in (DOMAIN elements) \cup {HashKeyOf(key)} |->
                        IF hk = HashKeyOf(key) THEN value ELSE elements[hk]])

IndexError(what) == <<"IndexError", "index operator not supported", what>>

\* A variant of the array index that counts a negative index from the end:
\* C18_Index does not hold of it.
execute_array_index_from_end(m, array, index) ==
    IF index >= 0 /\ index < Len(array)
    THEN push(m, from_object(array[index + 1]))
    ELSE IF index < 0 /\ 0 - index <= Len(array)
    THEN push(m, from_object(array[Len(array) + index + 1]))
    ELSE push(m, NullV)

execute_array_index(m, array, index) ==
    IF index >= 0 /\ index < Len(array)
    THEN push(m, from_object(array[index + 1]))
    ELSE push(m, NullV)

execute_hash_index(m, hash, index) ==
    IF is_hashable(index)
    THEN IF HashKeyOf(index) \in DOMAIN hash
         THEN push(m, from_object(hash[HashKeyOf(index)]))
         ELSE push(m, NullV)
    ELSE VMErr(m, IndexError(index.o))

execute_index_operation(m, left, index) ==
    IF left.v = "Object" /\ index.v = "Integer"
    THEN CASE left.obj.o = "Array" -> execute_array_index(m, left.obj.elems, index.i)
           [] left.obj.o = "Hash" -> execute_hash_index(m, left.obj.pairs, into_rc_object(index))
           [] OTHER -> VMErr(m, IndexError(type_name(left)))
    ELSE IF left.v = "Object"
    THEN CASE left.obj.o = "Hash" -> execute_hash_index(m, left.obj.pairs, into_rc_object(index))
           [] OTHER -> VMErr(m, IndexError(type_name(left)))
    ELSE VMErr(m, IndexError(type_name(left)))

\* object::builtins::BuiltIns: the host's ordered list of built-in functions
BuiltIns == << "len", "puts", "first", "last", "rest", "push" >>

ErrorObj(msg) == [o |-> "Error", msg |-> msg]

\* the built-in function at `index` applied to args
ApplyBuiltin(index, args) ==
    LET name == BuiltIns[index + 1]
    IN CASE name = "len" ->
              IF Len(args) # 1 THEN ErrorObj("wrong number of arguments")
              ELSE IF args[1].o = "Array" THEN IntegerObj(Len(args[1].elems))
              ELSE IF args[1].o = "String" THEN IntegerObj(Len(args[1].s))
              ELSE ErrorObj("argument to len not supported")
         [] name = "puts" -> NullObj
         [] name = "first" ->
              IF Len(args) # 1 THEN ErrorObj("wrong number of arguments")
              ELSE IF args[1].o # "Array" THEN ErrorObj("argument to first must be ARRAY")
              ELSE IF args[1].elems = << >> THEN NullObj ELSE Head(args[1].elems)
         [] name = "last" ->
              IF Len(args) # 1 THEN ErrorObj("wrong number of arguments")
              ELSE IF args[1].o # "Array" THEN ErrorObj("argument to last must be ARRAY")
              ELSE IF args[1].elems = << >> THEN NullObj
              ELSE args[1].elems[Len(args[1].elems)]
         [] name = "rest" ->
              IF Len(args) # 1 THEN ErrorObj("wrong number of arguments")
              ELSE IF args[1].o # "Array" THEN ErrorObj("argument to rest must be ARRAY")
              ELSE IF args[1].elems = << >> THEN NullObj
              ELSE ArrayObj(Tail(args[1].elems))
         [] name = "push" ->
              IF Len(args) # 2 THEN ErrorObj("wrong number of arguments")
              ELSE IF args[1].o # "Array" THEN ErrorObj("argument to push must be ARRAY")
              ELSE ArrayObj(Append(args[1].elems, args[2]))

\* A variant of call_closure without the arity check: C12_Call does not hold
\* of it.
call_closure_unchecked(m, cl, num_args) ==
    LET frame == Frame(cl, m.sp - num_args)
    IN push_frame([m EXCEPT !.sp = frame.base_pointer + cl.func.num_locals], frame)

call_closure(m, cl, num_args) ==
    IF cl.func.num_parameters # num_args
    THEN VMErr(m, <<"WrongArity", cl.func.num_parameters, num_args>>)
    ELSE LET frame == Frame(cl, m.sp - num_args)
         IN push_frame([m EXCEPT !.sp = frame.base_pointer + cl.func.num_locals], frame)

call_builtin(m, bt, num_args) ==
    LET args == build_array(m, m.sp - num_args, m.sp)
        result == ApplyBuiltin(bt, args)
    IN push([m EXCEPT !.sp = m.sp - num_args - 1], from_object(result))

\* execute_call: stack[sp - 1 - num_args] aborts below the stack
execute_call(m, num_args) ==
    IF ~CanPop(m, num_args + 1) THEN VMPanic(m)
    ELSE LET callee == Top(m, num_args)
         IN IF callee.v = "Object" /\ callee.obj.o = "ClosureObj"
            THEN call_closure(m, callee.obj.cl, num_args)
            ELSE IF callee.v = "Object" /\ callee.obj.o = "Builtin"
            THEN call_builtin(m, callee.obj.f, num_args)
            ELSE VMErr(m, <<"NotCallable", type_name(callee)>>)

push_closure(m, const_index, num_free) ==
    IF const_index >= Len(m.constants) THEN VMPanic(m)
    ELSE LET constant == m.constants[const_index + 1]
         IN IF constant.v = "Object" /\ constant.obj.o = "CompiledFunction"
            THEN IF ~CanPop(m, num_free) THEN VMPanic(m)
                 ELSE LET free == build_array(m, m.sp - num_free, m.sp)
                      IN push([m EXCEPT !.sp = @ - num_free],
                              ObjectV(ClosureObj(Closure(constant.obj.func, free))))
            ELSE VMErr(m, <<"TypeError", "not a function", type_name(constant)>>)

\* the copy loop of OpTailCall: stack[base + i] = stack[sp - num_args + i]
RECURSIVE TailCallCopy(_, _, _, _)
TailCallCopy(m, base, num_args, i) ==
    IF i >= num_args \/ m.res # "running" THEN m
    ELSE IF m.sp < num_args \/ m.sp - num_args + i >= STACK_SIZE \/ base + i >= STACK_SIZE
    THEN VMPanic(m)
    ELSE TailCallCopy([m EXCEPT !.stack =
                          SlotSet(@, base + i, SlotGet(m.stack, m.sp - num_args + i))],
                      base, num_args, i + 1)

\* `self.sp - count` with count above sp (OpArray, OpHash): the subtraction
\* aborts in a build with overflow checks; in a build without, the range
\* start..end is empty, sp wraps and push reports the overflow
Underflow(m, count) ==
    IF overflow_checks THEN VMPanic(m)
    ELSE VMErr([m EXCEPT !.sp = @ - count], <<"StackOverflow">>)

\* ------------------------------------------------ the arms of VM::run's match

\* Each takes the VM at the top of the loop body, before `ip += 1`.

ExecConst(m) ==
    LET const_index == Operand16(m)
        m1 == Advance(m, 3)
    IN IF const_index >= Len(m.constants) THEN VMPanic(m1)
       ELSE push(m1, m.constants[const_index + 1])

ExecBinary(m) == execute_binary_operation(Advance(m, 1), cast_u8_to_opcode(Ins(m)[Ip(m) + 1]))

ExecPop(m) == pop(Advance(m, 1))

ExecTrue(m) == push(Advance(m, 1), BooleanV(TRUE))

ExecFalse(m) == push(Advance(m, 1), BooleanV(FALSE))

ExecComparison(m) == execute_comparison(Advance(m, 1), cast_u8_to_opcode(Ins(m)[Ip(m) + 1]))

ExecMinus(m) == execute_minus_operation(Advance(m, 1))

ExecBang(m) == execute_bang_operation(Advance(m, 1))

ExecJump(m) == SetIp(m, Operand16(m) - 1)

ExecJumpNotTruthy(m) ==
    LET pos == Operand16(m)
        m1 == Advance(m, 3)
        condition == Top(m1, 0)
        m2 == pop(m1)
    IN IF m2.res # "running" THEN m2
       ELSE IF ~is_truthy(condition) THEN SetIp(m2, pos - 1) ELSE m2

ExecNull(m) == push(Advance(m, 1), NullV)

ExecGetGlobal(m) ==
    LET global_index == Operand16(m)
    IN push(Advance(m, 3), SlotGet(m.globals, global_index))

ExecSetGlobal(m) ==
    LET global_index == Operand16(m)
        m1 == Advance(m, 3)
        val == Top(m1, 0)
        m2 == pop(m1)
    IN IF m2.res # "running" THEN m2
       ELSE [m2 EXCEPT !.globals = SlotSet(@, global_index, val)]

ExecArray(m) ==
    LET count == Operand16(m)
        m1 == Advance(m, 3)
    IN IF ~CanPop(m1, count) THEN Underflow(m1, count)
       ELSE push([m1 EXCEPT !.sp = @ - count],
                 ObjectV(ArrayObj(build_array(m1, m1.sp - count, m1.sp))))

ExecHash(m) ==
    LET count == Operand16(m)
        m1 == Advance(m, 3)
    IN IF ~CanPop(m1, count) THEN Underflow(m1, count)
       ELSE LET elements == build_hash(m1, m1.sp - count, m1.sp, NoPairs)
            IN IF ~elements.ok THEN VMPanic(m1)
               ELSE push([m1 EXCEPT !.sp = @ - count], ObjectV(HashObj(elements.elements)))

ExecIndex(m) ==
    LET m1 == Advance(m, 1)
        index == Top(m1, 0)
        left == Top(m1, 1)
        m2 == pop(pop(m1))
    IN IF m2.res # "running" THEN m2 ELSE execute_index_operation(m2, left, index)

\* sp = frame.base_pointer - 1: with base_pointer 0 the subtraction aborts in
\* a build with overflow checks and wraps in a build without
AfterReturn(m, val) ==
    LET frame == current_frame(m)
        m1 == pop_frame(m)
    IN IF frame.base_pointer = 0
       THEN IF overflow_checks THEN VMPanic(m1) ELSE push([m1 EXCEPT !.sp = 0 - 1], val)
       ELSE push([m1 EXCEPT !.sp = frame.base_pointer - 1], val)

ExecReturnValue(m) ==
    LET m1 == Advance(m, 1)
        return_value == Top(m1, 0)
        m2 == pop(m1)
    IN IF m2.res # "running" THEN m2 ELSE AfterReturn(m2, return_value)

ExecReturn(m) == AfterReturn(Advance(m, 1), NullV)

ExecCall(m) == execute_call(Advance(m, 2), Operand8(m))

ExecTailCall(m) ==
    LET num_args == Operand8(m)
        m1 == Advance(m, 2)
        base == current_frame(m1).base_pointer
        num_locals == current_frame(m1).closure.func.num_locals
        m2 == TailCallCopy(m1, base, num_args, 0)
    IN IF m2.res # "running" THEN m2
       ELSE SetIp([m2 EXCEPT !.sp = base + num_locals], 0 - 1)

ExecSetLocal(m) ==
    LET local_index == Operand8(m)
        m1 == Advance(m, 2)
        base == current_frame(m1).base_pointer
        val == Top(m1, 0)
        m2 == pop(m1)
    IN IF m2.res # "running" THEN m2
       ELSE IF base + local_index >= STACK_SIZE THEN VMPanic(m2)
       ELSE [m2 EXCEPT !.stack = SlotSet(@, base + local_index, val)]

ExecGetLocal(m) ==
    LET local_index == Operand8(m)
        m1 == Advance(m, 2)
        base == current_frame(m1).base_pointer
    IN IF base + local_index >= STACK_SIZE THEN VMPanic(m1)
       ELSE push(m1, SlotGet(m1.stack, base + local_index))

ExecGetBuiltin(m) ==
    LET built_index == Operand8(m)
        m1 == Advance(m, 2)
    IN IF built_index >= Len(BuiltIns) THEN VMPanic(m1)
       ELSE push(m1, ObjectV(BuiltinObj(built_index)))

ExecClosure(m) ==
    LET const_index == Operand16(m)
        num_free == Operand8At(m, 3)
    IN push_closure(Advance(m, 4), const_index, num_free)

\* A variant of OpGetFree that reads the local slot of the calling frame
\* instead of the closure's free vector (capture by reference):
\* C5_CaptureByValue does not hold of it.
ExecGetFree_by_reference(m) ==
    LET free_index == Operand8(m)
        m1 == Advance(m, 2)
    IN IF m1.frame_index < 2 THEN VMPanic(m1)
       ELSE push(m1, SlotGet(m1.stack,
                             m1.frames[m1.frame_index - 1].base_pointer + free_index))

ExecGetFree(m) ==
    LET free_index == Operand8(m)
        m1 == Advance(m, 2)
        current_closure == current_frame(m1).closure
    IN IF free_index >= Len(current_closure.free) THEN VMPanic(m1)
       ELSE push(m1, from_object(current_closure.free[free_index + 1]))

ExecCurrentClosure(m) ==
    push(Advance(m, 1), ObjectV(ClosureObj(current_frame(m).closure)))

\* ------------------------------------------------------------- the programs

\* let x = 0; while (x < 5) { let x = x + 1; }; x
WhileRebind ==
    << Let("x", IntLit(0)),
       ExprStmt(While(Infix("LT", Ident("x"), IntLit(5)),
                      << Let("x", Infix("PLUS", Ident("x"), IntLit(1))) >>)),
       ExprStmt(Ident("x")) >>

\* let countdown = fn(n) { if (n == 0) { return 0; } countdown(n - 1) }; countdown(d)
Countdown(d) ==
    << Let("countdown",
           Function("", <<"n">>,
               << ExprStmt(If(Infix("EQ", Ident("n"), IntLit(0)),
                              << ReturnStmt(IntLit(0)) >>)),
                  ExprStmt(FunctionCall(Ident("countdown"),
                              << Infix("MINUS", Ident("n"), IntLit(1)) >>)) >>)),
       ExprStmt(FunctionCall(Ident("countdown"), << IntLit(d) >>)) >>

\* let newAdder = fn(x) { fn(y) { x + y } }; let addTwo = newAdder(2); addTwo(3)
NewAdder ==
    << Let("newAdder",
           Function("", <<"x">>,
               << ExprStmt(Function("", <<"y">>,
                     << ExprStmt(Infix("PLUS", Ident("x"), Ident("y"))) >>)) >>)),
       Let("addTwo", FunctionCall(Ident("newAdder"), << IntLit(2) >>)),
       ExprStmt(FunctionCall(Ident("addTwo"), << IntLit(3) >>)) >>

\* let f = fn(a) { fn(b) { fn(c) { (b * 10 + a) * 10 + c } } }; f(1)(2)(3)
Nested3 ==
    << Let("f",
           Function("", <<"a">>,
             << ExprStmt(Function("", <<"b">>,
                  << ExprStmt(Function("", <<"c">>,
                       << ExprStmt(
                            Infix("PLUS",
                                Infix("ASTERISK",
                                    Infix("PLUS",
                                        Infix("ASTERISK", Ident("b"), IntLit(10)),
                                        Ident("a")),
                                    IntLit(10)),
                                Ident("c"))) >>)) >>)) >>)),
       ExprStmt(FunctionCall(
                  FunctionCall(FunctionCall(Ident("f"), << IntLit(1) >>), << IntLit(2) >>),
                  << IntLit(3) >>)) >>

\* let mk = fn(n, g) { if (n == 0) { return g() } mk(n - 1, fn() { n }) }; mk(2, 0)
CaptureThenReuse ==
    << Let("mk",
           Function("", <<"n", "g">>,
             << ExprStmt(If(Infix("EQ", Ident("n"), IntLit(0)),
                            << ReturnStmt(FunctionCall(Ident("g"), << >>)) >>)),
                ExprStmt(FunctionCall(Ident("mk"),
                    << Infix("MINUS", Ident("n"), IntLit(1)),
                       Function("", << >>, << ExprStmt(Ident("n")) >>) >>)) >>)),
       ExprStmt(FunctionCall(Ident("mk"), << IntLit(2), IntLit(0) >>)) >>

\* if (true) { let a = 1 }
IfLet == << ExprStmt(If(BoolLit(TRUE), << Let("a", IntLit(1)) >>)) >>

\* return 3
TopReturn == << ReturnStmt(IntLit(3)) >>

\* let z = 0; 1 / z
DivZero == << Let("z", IntLit(0)), ExprStmt(Infix("SLASH", IntLit(1), Ident("z"))) >>

\* let y = y
LetSelf == << Let("y", Ident("y")) >>

\* let x = 1; let x = x + 1; x
LetRebind ==
    << Let("x", IntLit(1)), Let("x", Infix("PLUS", Ident("x"), IntLit(1))),
       ExprStmt(Ident("x")) >>

\* len([1, 2])
CallLen ==
    << ExprStmt(FunctionCall(Ident("len"), << ArrayLit(<< IntLit(1), IntLit(2) >>) >>)) >>

\* zz
Undefined == << ExprStmt(Ident("zz")) >>

\* let f = fn(a) { a + zz }
UndefinedInFn ==
    << Let("f", Function("", <<"a">>,
                  << ExprStmt(Infix("PLUS", Ident("a"), Ident("zz"))) >>)) >>

\* let k = 1; fn(a) { fn(b) { a + b + k + zz } }
UndefinedNested ==
    << Let("k", IntLit(1)),
       ExprStmt(Function("", <<"a">>,
         << ExprStmt(Function("", <<"b">>,
              << ExprStmt(Infix("PLUS",
                    Infix("PLUS", Infix("PLUS", Ident("a"), Ident("b")), Ident("k")),
                    Ident("zz"))) >>)) >>)) >>

\* 1 + true
AddBoolean == << ExprStmt(Infix("PLUS", IntLit(1), BoolLit(TRUE))) >>

\* let a = 5; let h = {1: 2, "k": false}; [!a, -a, h[1], [1, 2][0], "s" + "t"]
Literals ==
    << Let("a", IntLit(5)),
       Let("h", HashLit(<< << IntLit(1), IntLit(2) >>, << StrLit("k"), BoolLit(FALSE) >> >>)),
       ExprStmt(ArrayLit(
         << Prefix("BANG", Ident("a")),
            Prefix("MINUS", Ident("a")),
            Index(Ident("h"), IntLit(1)),
            Index(ArrayLit(<< IntLit(1), IntLit(2) >>), IntLit(0)),
            Infix("PLUS", StrLit("s"), StrLit("t")) >>)) >>

\* fn() { }(); fn() { let q = 1; q }()
Locals ==
    << ExprStmt(FunctionCall(Function("", << >>, << >>), << >>)),
       ExprStmt(FunctionCall(
           Function("", << >>, << Let("q", IntLit(1)), ExprStmt(Ident("q")) >>), << >>)) >>

\* {[1]: 2}
HashArrayKey ==
    << ExprStmt(HashLit(<< << ArrayLit(<< IntLit(1) >>), IntLit(2) >> >>)) >>

\* three calls: of a closure with its arity, of a closure with another
\* arity, of an integer
CallLines ==
    << << Let("add", Function("", <<"a", "b">>,
                       << Let("c", Infix("PLUS", Ident("a"), Ident("b"))),
                          ExprStmt(Ident("c")) >>)),
          ExprStmt(FunctionCall(Ident("add"), << IntLit(1), IntLit(2) >>)) >>,
       << Let("f", Function("", <<"a">>, << ExprStmt(Ident("a")) >>)),
          ExprStmt(FunctionCall(Ident("f"), << IntLit(1), IntLit(2) >>)) >>,
       << Let("x", IntLit(5)),
          ExprStmt(FunctionCall(Ident("x"), << IntLit(1) >>)) >> >>

\* let f = fn() { if (true) { } if (true) { } 5 }; [10, f()]
EmptyIfs ==
    << Let("f", Function("", << >>,
                  << ExprStmt(If(BoolLit(TRUE), << >>)),
                     ExprStmt(If(BoolLit(TRUE), << >>)),
                     ExprStmt(IntLit(5)) >>)),
       ExprStmt(ArrayLit(<< IntLit(10), FunctionCall(Ident("f"), << >>) >>)) >>

\* conditionals and loops, nested and in a function's tail position:
\*   if (true) { 10 }; 3333;
\*   if (true) { 10 } else { 20 }; 3333;
\*   while (false) { 1 }
\*   if (1 > 2) { while (false) { if (true) { 1 } } } else { if (false) { 2 } else { 3 } }
\*   fn(a) { if (a) { 1 } else { while (a) { 2 } } }(false)
JumpLines ==
    << << ExprStmt(If(BoolLit(TRUE), << ExprStmt(IntLit(10)) >>)),
          ExprStmt(IntLit(3333)) >>,
       << ExprStmt(IfElse(BoolLit(TRUE), << ExprStmt(IntLit(10)) >>,
                          << ExprStmt(IntLit(20)) >>)),
          ExprStmt(IntLit(3333)) >>,
       << ExprStmt(While(BoolLit(FALSE), << ExprStmt(IntLit(1)) >>)) >>,
       << ExprStmt(IfElse(Infix("GT", IntLit(1), IntLit(2)),
             << ExprStmt(While(BoolLit(FALSE),
                   << ExprStmt(If(BoolLit(TRUE), << ExprStmt(IntLit(1)) >>)) >>)) >>,
             << ExprStmt(IfElse(BoolLit(FALSE), << ExprStmt(IntLit(2)) >>,
                                << ExprStmt(IntLit(3)) >>)) >>)) >>,
       << ExprStmt(FunctionCall(
             Function("", <<"a">>,
                << ExprStmt(IfElse(Ident("a"), << ExprStmt(IntLit(1)) >>,
                      << ExprStmt(While(Ident("a"), << ExprStmt(IntLit(2)) >>)) >>)) >>),
             << BoolLit(FALSE) >>)) >> >>

\* let k = 1;
\* let outer = fn(a, b) {
\*     let c = a + b;
\*     let inner = fn(x) { let y = x + c + k; let z = len([y]); y + z };
\*     if (c > 0) { let d = inner(1); d } else { 0 }
\* };
\* outer(1, 2)
LocalsCount ==
    << Let("k", IntLit(1)),
       Let("outer", Function("", <<"a", "b">>,
         << Let("c", Infix("PLUS", Ident("a"), Ident("b"))),
            Let("inner", Function("", <<"x">>,
              << Let("y", Infix("PLUS", Infix("PLUS", Ident("x"), Ident("c")), Ident("k"))),
                 Let("z", FunctionCall(Ident("len"), << ArrayLit(<< Ident("y") >>) >>)),
                 ExprStmt(Infix("PLUS", Ident("y"), Ident("z"))) >>)),
            ExprStmt(IfElse(Infix("GT", Ident("c"), IntLit(0)),
                       << Let("d", FunctionCall(Ident("inner"), << IntLit(1) >>)),
                          ExprStmt(Ident("d")) >>,
                       << ExprStmt(IntLit(0)) >>)) >>)),
       ExprStmt(FunctionCall(Ident("outer"), << IntLit(1), IntLit(2) >>)) >>

\* index expressions over arrays, hashes and other values, one a line
Array123 == ArrayLit(<< IntLit(1), IntLit(2), IntLit(3) >>)
Hash3 ==
    HashLit(<< << IntLit(1), IntLit(10) >>, << BoolLit(TRUE), IntLit(20) >>,
               << StrLit("s"), IntLit(30) >> >>)
NullExpr == If(BoolLit(FALSE), << ExprStmt(IntLit(1)) >>)
IndexLines ==
    << << ExprStmt(Index(Array123, IntLit(0))) >>,
       << ExprStmt(Index(Array123, IntLit(2))) >>,
       << ExprStmt(Index(Array123, IntLit(3))) >>,
       << ExprStmt(Index(Array123, Prefix("MINUS", IntLit(1)))) >>,
       << ExprStmt(Index(Hash3, IntLit(1))) >>,
       << ExprStmt(Index(Hash3, BoolLit(TRUE))) >>,
       << ExprStmt(Index(Hash3, StrLit("s"))) >>,
       << ExprStmt(Index(Hash3, IntLit(2))) >>,
       << ExprStmt(Index(HashLit(<< >>), StrLit("x"))) >>,
       << ExprStmt(Index(Hash3, ArrayLit(<< IntLit(1) >>))) >>,
       << ExprStmt(Index(Hash3, NullExpr)) >>,
       << ExprStmt(Index(Array123, BoolLit(TRUE))) >>,
       << ExprStmt(Index(Array123, StrLit("s"))) >>,
       << ExprStmt(Index(IntLit(5), IntLit(0))) >>,
       << ExprStmt(Index(StrLit("str"), IntLit(0))) >>,
       << ExprStmt(Index(Function("", << >>, << ExprStmt(IntLit(1)) >>), IntLit(0))) >>,
       << ExprStmt(Index(NullExpr, IntLit(0))) >> >>

\* if (X) { 1 } else { 2 } for conditions X of every kind of value
Choose12(condition) ==
    << ExprStmt(IfElse(condition, << ExprStmt(IntLit(1)) >>, << ExprStmt(IntLit(2)) >>)) >>
TruthyConditions ==
    << BoolLit(TRUE), BoolLit(FALSE), IntLit(0), IntLit(5), StrLit(""),
       ArrayLit(<< >>), HashLit(<< >>), Function("", << >>, << >>), NullExpr,
       Ident("len") >>
TruthyLines == [j \in 1..Len(TruthyConditions) |-> Choose12(TruthyConditions[j])]

\* !X for operands X of every kind of value, and !!5
BangOperands ==
    << IntLit(5), Prefix("BANG", IntLit(5)), NullExpr, IntLit(0), StrLit("s"),
       ArrayLit(<< >>), Function("", << >>, << >>),
       Infix("EQ", IntLit(1), IntLit(1)), Infix("NotEq", IntLit(1), IntLit(1)) >>
BangLines ==
    [j \in 1..Len(BangOperands) |-> << ExprStmt(Prefix("BANG", BangOperands[j])) >>]

\* operators on operands of matching and of mismatched types, one a line; the
\* last two lines: a failing let between two others, and a use of the first
TypeLines ==
    << << ExprStmt(Infix("PLUS", IntLit(1), BoolLit(TRUE))) >>,
       << ExprStmt(Infix("PLUS", StrLit("a"), StrLit("b"))) >>,
       << ExprStmt(Infix("MINUS", StrLit("a"), StrLit("b"))) >>,
       << ExprStmt(Infix("PLUS", ArrayLit(<< IntLit(1) >>), ArrayLit(<< IntLit(1) >>))) >>,
       << ExprStmt(Infix("PLUS", StrLit("a"), IntLit(1))) >>,
       << ExprStmt(Infix("EQ", BoolLit(TRUE), IntLit(1))) >>,
       << ExprStmt(Infix("EQ", StrLit("a"), StrLit("a"))) >>,
       << ExprStmt(Infix("EQ", BoolLit(TRUE), BoolLit(TRUE))) >>,
       << ExprStmt(Infix("NotEq", BoolLit(TRUE), BoolLit(FALSE))) >>,
       << ExprStmt(Infix("GT", BoolLit(TRUE), BoolLit(FALSE))) >>,
       << ExprStmt(Infix("LT", StrLit("a"), StrLit("b"))) >>,
       << ExprStmt(Prefix("MINUS", BoolLit(TRUE))) >>,
       << ExprStmt(Prefix("MINUS", StrLit("s"))) >>,
       << ExprStmt(Infix("ASTERISK", NullExpr, IntLit(1))) >>,
       << ExprStmt(Infix("NotEq", NullExpr, NullExpr)) >>,
       << Let("a", IntLit(1)),
          Let("b", Infix("PLUS", Ident("a"), BoolLit(TRUE))),
          Let("c", IntLit(3)),
          ExprStmt(Ident("c")) >>,
       << ExprStmt(Ident("a")) >> >>

\* let g = 7; let h = 8;
\* let f = fn(p) { let q = p + h;
\*                 let inner = fn(r) { let s = g + r; fn() { g + h } };
\*                 inner(q)() };
\* f(1)
\* and: let z = 5; fn(a) { fn() { len([z]) + z } }(1)()
GlobalLines ==
    << << Let("g", IntLit(7)),
          Let("h", IntLit(8)),
          Let("f", Function("", <<"p">>,
            << Let("q", Infix("PLUS", Ident("p"), Ident("h"))),
               Let("inner", Function("", <<"r">>,
                 << Let("s", Infix("PLUS", Ident("g"), Ident("r"))),
                    ExprStmt(Function("", << >>,
                      << ExprStmt(Infix("PLUS", Ident("g"), Ident("h"))) >>)) >>)),
               ExprStmt(FunctionCall(FunctionCall(Ident("inner"), << Ident("q") >>),
                                     << >>)) >>)),
          ExprStmt(FunctionCall(Ident("f"), << IntLit(1) >>)) >>,
       << Let("z", IntLit(5)),
          ExprStmt(FunctionCall(FunctionCall(
            Function("", <<"a">>,
              << ExprStmt(Function("", << >>,
                   << ExprStmt(Infix("PLUS",
                        FunctionCall(Ident("len"), << ArrayLit(<< Ident("z") >>) >>),
                        Ident("z"))) >>)) >>),
            << IntLit(1) >>), << >>)) >> >>

\* [7, 7, "s", "s"], then [7, zz] with zz undefined, then 7
PoolLines ==
    << << ExprStmt(ArrayLit(<< IntLit(7), IntLit(7), StrLit("s"), StrLit("s") >>)) >>,
       << ExprStmt(ArrayLit(<< IntLit(7), Ident("zz") >>)) >>,
       << ExprStmt(IntLit(7)) >> >>

\* calls of functions whose bodies end in an expression, in nothing, in a
\* let, in a return, in a while and in an if
Called(params, body, arguments) == << ExprStmt(FunctionCall(Function("", params, body), arguments)) >>
ReturnLines ==
    << Called(<< >>, << ExprStmt(IntLit(5)) >>, << >>),
       Called(<< >>, << >>, << >>),
       Called(<< >>, << Let("a", IntLit(1)) >>, << >>),
       Called(<< >>, << ReturnStmt(IntLit(7)) >>, << >>),
       Called(<< >>, << ExprStmt(While(BoolLit(FALSE), << ExprStmt(IntLit(1)) >>)) >>, << >>),
       Called(<<"c">>, << ExprStmt(If(Ident("c"), << ReturnStmt(IntLit(1)) >>)) >>,
              << BoolLit(TRUE) >>),
       Called(<<"c">>, << ExprStmt(If(Ident("c"), << ReturnStmt(IntLit(1)) >>)) >>,
              << BoolLit(FALSE) >>) >>

\* fn(a) { while (a) { if (true) { } } }(1)
LoopIf ==
    Called(<<"a">>,
           << ExprStmt(While(Ident("a"), << ExprStmt(If(BoolLit(TRUE), << >>)) >>)) >>,
           << IntLit(1) >>)

\* fn(a) { while (a) { 1; [a]; let b = a; return 7 } }(1), and the same
\* called with false
LoopLines ==
    << Called(<<"a">>,
              << ExprStmt(While(Ident("a"),
                   << ExprStmt(IntLit(1)), ExprStmt(ArrayLit(<< Ident("a") >>)),
                      Let("b", Ident("a")), ReturnStmt(IntLit(7)) >>)) >>,
              << IntLit(1) >>),
       Called(<<"a">>,
              << ExprStmt(While(Ident("a"),
                   << ExprStmt(IntLit(1)), ExprStmt(ArrayLit(<< Ident("a") >>)),
                      Let("b", Ident("a")), ReturnStmt(IntLit(7)) >>)) >>,
              << BoolLit(FALSE) >>) >>

\* let f = fn(x) { if (x) { 1 } else { fn() { f(true) } } }; f(false)()
SelfInNested ==
    << Let("f", Function("", <<"x">>,
                  << ExprStmt(IfElse(Ident("x"),
                        << ExprStmt(IntLit(1)) >>,
                        << ExprStmt(Function("", << >>,
                              << ExprStmt(FunctionCall(Ident("f"), << BoolLit(TRUE) >>)) >>)) >>)) >>)),
       ExprStmt(FunctionCall(FunctionCall(Ident("f"), << BoolLit(FALSE) >>), << >>)) >>

\* let f = fn(f, n) { if (n == 0) { return 5 }; f(f, 0) }; f(fn(a, b) { 9 }, 1)
ShadowedSelf ==
    << Let("f", Function("", <<"f", "n">>,
                  << ExprStmt(If(Infix("EQ", Ident("n"), IntLit(0)),
                                 << ReturnStmt(IntLit(5)) >>)),
                     ExprStmt(FunctionCall(Ident("f"), << Ident("f"), IntLit(0) >>)) >>)),
       ExprStmt(FunctionCall(Ident("f"),
                  << Function("", <<"a", "b">>, << ExprStmt(IntLit(9)) >>), IntLit(1) >>)) >>

\* let g = fn(a, b) { if (a == 0) { return b }; g(0); 1 }; g(1, 2)
\* let f = fn(a, b) { if (a == 0) { return b }; f(0) }; f(1, 2)
TailArityLines ==
    << << Let("g", Function("", <<"a", "b">>,
                     << ExprStmt(If(Infix("EQ", Ident("a"), IntLit(0)),
                                    << ReturnStmt(Ident("b")) >>)),
                        ExprStmt(FunctionCall(Ident("g"), << IntLit(0) >>)),
                        ExprStmt(IntLit(1)) >>)),
          ExprStmt(FunctionCall(Ident("g"), << IntLit(1), IntLit(2) >>)) >>,
       << Let("f", Function("", <<"a", "b">>,
                     << ExprStmt(If(Infix("EQ", Ident("a"), IntLit(0)),
                                    << ReturnStmt(Ident("b")) >>)),
                        ExprStmt(FunctionCall(Ident("f"), << IntLit(0) >>)) >>)),
          ExprStmt(FunctionCall(Ident("f"), << IntLit(1), IntLit(2) >>)) >> >>

\* fn(a) { zz }
\* let b = 1; b
ErrThenLetLines ==
    << << ExprStmt(Function("", <<"a">>, << ExprStmt(Ident("zz")) >>)) >>,
       << Let("b", IntLit(1)), ExprStmt(Ident("b")) >> >>

\* let f = fn() { f(); 1 }; f()
Runaway ==
    << Let("f", Function("", << >>,
                  << ExprStmt(FunctionCall(Ident("f"), << >>)), ExprStmt(IntLit(1)) >>)),
       ExprStmt(FunctionCall(Ident("f"), << >>)) >>

\* let b1 = 0; ...; let bn = 0; 0
ManyLets(n) == [j \in 1..(n + 1) |->
                   IF j <= n THEN Let("b" \o ToString(j), IntLit(0)) ELSE ExprStmt(IntLit(0))]

\* let f = fn(a) { if (a) { let b1 = 0; ...; let b20 = 0; 0 }; f(a); 1 }; f(false)
DeepLocals ==
    << Let("f", Function("", <<"a">>,
                  << ExprStmt(If(Ident("a"), ManyLets(20))),
                     ExprStmt(FunctionCall(Ident("f"), << Ident("a") >>)),
                     ExprStmt(IntLit(1)) >>)),
       ExprStmt(FunctionCall(Ident("f"), << BoolLit(FALSE) >>)) >>

\* the lines of a REPL sitting: bindings, a line that ends with a VMError,
\* then uses and a rebinding
ReplLines ==
    << << Let("a", IntLit(7)) >>,
       << Let("f", Function("", <<"x">>,
                     << ExprStmt(Infix("PLUS", Ident("x"), IntLit(40))) >>)) >>,
       AddBoolean,
       << ExprStmt(Ident("a")) >>,
       << ExprStmt(FunctionCall(Ident("f"), << IntLit(2) >>)) >>,
       << Let("a", IntLit(9)) >>,
       << ExprStmt(Ident("a")) >>,
       << ExprStmt(FunctionCall(Ident("f"), << Ident("a") >>)) >> >>

\* the integer literals and the operators of the folding corpus
FoldLiterals == {IntMin, 0 - 1, 0, 1, IntMax}
FoldOps ==
    {"PLUS", "MINUS", "ASTERISK", "SLASH", "PERCENT",
     "GT", "LT", "GTE", "LTE", "EQ", "NotEq"}

\* An input: a named program (with the depth a of a countdown), or `a op b`
\* and `-a` over integer literals.
Session(name, a) == [name |-> name, op |-> "", a |-> a, b |-> 0]

Sessions ==
    {Session(n, 0) : n \in {"WhileRebind", "NewAdder", "Nested3", "CaptureThenReuse",
                            "IfLet", "TopReturn", "DivZero", "LetSelf", "LetRebind",
                            "CallLen", "Undefined", "UndefinedInFn",
                            "UndefinedNested", "AddBoolean", "Literals", "Locals",
                            "Repl", "HashArrayKey", "Calls", "EmptyIfs", "Jumps", "LocalsCount", "Indexes", "Truthy", "Bangs", "Types", "Globals", "Pool", "Returns", "LoopIf", "Loops", "SelfInNested", "ShadowedSelf", "TailArity", "ErrThenLet", "Runaway", "DeepLocals"}}
    \cup {Session("Countdown", d) : d \in {0, 3, MaxDepth}}
    \cup [name : {"Fold"}, op : FoldOps, a : FoldLiterals, b : FoldLiterals]
    \cup [name : {"FoldPrefix"}, op : {"MINUS"}, a : FoldLiterals, b : {0}]
    \cup [name : {"FoldPrefix"}, op : {"BANG"}, a : {0, 1}, b : {0}]
    \cup {[name |-> "Fold", op |-> "PLUS", a |-> 5, b |-> 10]}
    \cup [name : {"Unfold"}, op : FoldOps, a : FoldLiterals, b : FoldLiterals]
    \cup [name : {"UnfoldPrefix"}, op : {"MINUS"}, a : FoldLiterals, b : {0}]
    \cup [name : {"UnfoldPrefix"}, op : {"BANG"}, a : {0, 1}, b : {0}]

\* the literal under a prefix operator: an integer under -, a boolean under !
PrefixLiteral(s) == IF s.op = "BANG" THEN BoolLit(s.a = 1) ELSE IntLit(s.a)

\* the lines of an input, each a Program
Lines(s) ==
    CASE s.name = "WhileRebind" -> << WhileRebind >>
      [] s.name = "Countdown" -> << Countdown(s.a) >>
      [] s.name = "NewAdder" -> << NewAdder >>
      [] s.name = "Nested3" -> << Nested3 >>
      [] s.name = "CaptureThenReuse" -> << CaptureThenReuse >>
      [] s.name = "IfLet" -> << IfLet >>
      [] s.name = "TopReturn" -> << TopReturn >>
      [] s.name = "DivZero" -> << DivZero >>
      [] s.name = "LetSelf" -> << LetSelf >>
      [] s.name = "LetRebind" -> << LetRebind >>
      [] s.name = "CallLen" -> << CallLen >>
      [] s.name = "Undefined" -> << Undefined, << ExprStmt(IntLit(1)) >> >>
      [] s.name = "UndefinedInFn" -> << UndefinedInFn >>
      [] s.name = "UndefinedNested" -> << UndefinedNested >>
      [] s.name = "AddBoolean" -> << AddBoolean >>
      [] s.name = "Literals" -> << Literals >>
      [] s.name = "Locals" -> << Locals >>
      [] s.name = "Repl" -> ReplLines
      [] s.name = "HashArrayKey" -> << HashArrayKey >>
      [] s.name = "Calls" -> CallLines
      [] s.name = "EmptyIfs" -> << EmptyIfs >>
      [] s.name = "Jumps" -> JumpLines
      [] s.name = "LocalsCount" -> << LocalsCount >>
      [] s.name = "Indexes" -> IndexLines
      [] s.name = "Truthy" -> TruthyLines
      [] s.name = "Bangs" -> BangLines
      [] s.name = "Types" -> TypeLines
      [] s.name = "Globals" -> GlobalLines
      [] s.name = "Pool" -> PoolLines
      [] s.name = "Returns" -> ReturnLines
      [] s.name = "LoopIf" -> << LoopIf >>
      [] s.name = "Loops" -> LoopLines
      [] s.name = "SelfInNested" -> << SelfInNested >>
      [] s.name = "ShadowedSelf" -> << ShadowedSelf >>
      [] s.name = "TailArity" -> TailArityLines
      [] s.name = "ErrThenLet" -> ErrThenLetLines
      [] s.name = "Runaway" -> << Runaway >>
      [] s.name = "DeepLocals" -> << DeepLocals >>
      [] s.name = "Fold" -> << << ExprStmt(Infix(s.op, IntLit(s.a), IntLit(s.b))) >> >>
      [] s.name = "FoldPrefix" -> << << ExprStmt(Prefix(s.op, PrefixLiteral(s))) >> >>
      [] s.name = "Unfold" ->
            << << Let("a", IntLit(s.a)), Let("b", IntLit(s.b)),
                  ExprStmt(Infix(s.op, Ident("a"), Ident("b"))) >> >>
      [] s.name = "UnfoldPrefix" ->
            << << Let("a", PrefixLiteral(s)), ExprStmt(Prefix(s.op, Ident("a"))) >> >>

Program == Lines(session)[line + 1]

\* ------------------------------------------------- compiler.rs: construction

RECURSIVE DefineBuiltins(_, _)
DefineBuiltins(st, key) ==
    IF key >= Len(BuiltIns) THEN st
    ELSE DefineBuiltins(define_builtin(st, key, BuiltIns[key + 1]), key + 1)

\* Compiler::new
NewCompiler ==
    [constants |-> << >>,
     symbol_table |-> DefineBuiltins(<<NewTable>>, 0),
     scopes |-> <<NewScope>>,
     scope_index |-> 0,
     bookkeeping |-> TRUE,
     res |-> "ok",
     msg |-> << >>]

\* Compiler::new_with_state
new_with_state(st, cs) == [NewCompiler EXCEPT !.constants = cs, !.symbol_table = st]

\* Compiler::compile on a Program
compile(c, program) == compile_block_statement(c, program)

\* ------------------------------------------------------------------ main.rs

Init ==
    /\ mode \in {"test", "repl"}
    /\ overflow_checks \in BOOLEAN
    /\ session \in Sessions
    /\ line = 0
    /\ pc = "read"
    /\ symbol_table = <<NewTable>>
    /\ constants = << >>
    /\ globals = << >>
    /\ compiler = NewCompiler
    /\ vm = NoVM
    /\ output = << >>
    /\ defines = << >>

\* the compiler of a line: main carries its state over, a test makes a new one
LineCompiler ==
    IF mode = "repl" THEN new_with_state(symbol_table, constants) ELSE NewCompiler

\* the VM of a line: main seeds it with its globals, a test makes a new one
LineVM(bc) == IF mode = "repl" THEN new_with_global_store(bc, globals) ELSE NewVM(bc)

\* main, or the test harness, reads the next input and compiles it
ReadLine ==
    /\ pc = "read"
    /\ line < Len(Lines(session))
    /\ LET c == compile(LineCompiler, Program)
       IN /\ compiler' = c
          /\ CASE c.res = "panic" ->
                    /\ pc' = "aborted"
                    /\ UNCHANGED << line, symbol_table, constants, vm, output >>
               [] c.res = "err" ->
                    /\ pc' = "read"
                    /\ line' = line + 1
                    /\ output' = <<"CompileError", c.msg>>
                    /\ symbol_table' = c.symbol_table
                    /\ constants' = c.constants
                    /\ UNCHANGED vm
               [] c.res = "ok" ->
                    /\ pc' = "run"
                    /\ vm' = LineVM(bytecode(c))
                    /\ UNCHANGED << line, symbol_table, constants, output >>
    /\ UNCHANGED << defines, mode, overflow_checks, session, globals >>

\* empty input: exit(0)
Exit ==
    /\ pc = "read"
    /\ line = Len(Lines(session))
    /\ pc' = "exit"
    /\ UNCHANGED << defines, mode, overflow_checks, session, line, symbol_table, constants,
                    globals, compiler, vm, output >>

LoopCond(m) == current_frame(m).ip < Len(Ins(m)) - 1

\* main after run returned: the line's state is handed back
HandBack ==
    /\ globals' = vm.globals
    /\ symbol_table' = compiler.symbol_table
    /\ constants' = compiler.constants
    /\ line' = line + 1
    /\ UNCHANGED << defines, mode, overflow_checks, session, compiler >>

\* run leaves its loop and returns Ok; the last popped element is printed
RunOk ==
    /\ pc = "run"
    /\ vm.res = "running"
    /\ ~LoopCond(vm)
    /\ vm' = [vm EXCEPT !.res = "ok"]
    /\ IF last_popped_stack_elm(vm).some
       THEN /\ output' = <<"Ok", last_popped_stack_elm(vm).val>>
            /\ pc' = "read"
            /\ HandBack
       ELSE /\ pc' = "aborted"
            /\ UNCHANGED << defines, mode, overflow_checks, session, line, symbol_table,
                            constants, globals, compiler, output >>

\* A variant of main that starts from fresh globals after a VMError:
\* C7_ReplPersistence does not hold of it.
RunErr_fresh_globals ==
    /\ pc = "run"
    /\ vm.res = "err"
    /\ output' = <<"VMError", vm.error>>
    /\ pc' = "read"
    /\ globals' = << >>
    /\ symbol_table' = compiler.symbol_table
    /\ constants' = compiler.constants
    /\ line' = line + 1
    /\ UNCHANGED << defines, mode, overflow_checks, session, compiler, vm >>

\* run returned a VMError, which is printed
RunErr ==
    /\ pc = "run"
    /\ vm.res = "err"
    /\ output' = <<"VMError", vm.error>>
    /\ pc' = "read"
    /\ HandBack
    /\ UNCHANGED vm

\* one iteration of run's loop, dispatching one of `ops`
Dispatch(ops) ==
    /\ pc = "run"
    /\ vm.res = "running"
    /\ LoopCond(vm)
    /\ cast_u8_to_opcode(Ins(vm)[Ip(vm) + 1]) \in ops

Becomes(m) ==
    /\ vm' = m
    /\ pc' = IF m.res = "panic" THEN "aborted" ELSE "run"
    /\ UNCHANGED << defines, mode, overflow_checks, session, line, symbol_table, constants,
                    globals, compiler, output >>

OpConst == Dispatch({"OpConst"}) /\ Becomes(ExecConst(vm))
OpBinary == Dispatch({"OpAdd", "OpSub", "OpMul", "OpDiv", "OpModulo"}) /\ Becomes(ExecBinary(vm))
OpPop == Dispatch({"OpPop"}) /\ Becomes(ExecPop(vm))
OpTrue == Dispatch({"OpTrue"}) /\ Becomes(ExecTrue(vm))
OpFalse == Dispatch({"OpFalse"}) /\ Becomes(ExecFalse(vm))
OpComparison == Dispatch({"OpEqual", "OpNotEqual", "OpGreaterThan"}) /\ Becomes(ExecComparison(vm))
OpMinus == Dispatch({"OpMinus"}) /\ Becomes(ExecMinus(vm))
OpBang == Dispatch({"OpBang"}) /\ Becomes(ExecBang(vm))
OpJump == Dispatch({"OpJump"}) /\ Becomes(ExecJump(vm))
OpJumpNotTruthy == Dispatch({"OpJumpNotTruthy"}) /\ Becomes(ExecJumpNotTruthy(vm))
OpNull == Dispatch({"OpNull"}) /\ Becomes(ExecNull(vm))
OpGetGlobal == Dispatch({"OpGetGlobal"}) /\ Becomes(ExecGetGlobal(vm))
OpSetGlobal == Dispatch({"OpSetGlobal"}) /\ Becomes(ExecSetGlobal(vm))
OpArray == Dispatch({"OpArray"}) /\ Becomes(ExecArray(vm))
OpHash == Dispatch({"OpHash"}) /\ Becomes(ExecHash(vm))
OpIndex == Dispatch({"OpIndex"}) /\ Becomes(ExecIndex(vm))
OpReturnValue == Dispatch({"OpReturnValue"}) /\ Becomes(ExecReturnValue(vm))
OpReturn == Dispatch({"OpReturn"}) /\ Becomes(ExecReturn(vm))
OpCall == Dispatch({"OpCall"}) /\ Becomes(ExecCall(vm))
OpTailCall == Dispatch({"OpTailCall"}) /\ Becomes(ExecTailCall(vm))
OpSetLocal == Dispatch({"OpSetLocal"}) /\ Becomes(ExecSetLocal(vm))
OpGetLocal == Dispatch({"OpGetLocal"}) /\ Becomes(ExecGetLocal(vm))
OpGetBuiltin == Dispatch({"OpGetBuiltin"}) /\ Becomes(ExecGetBuiltin(vm))
OpClosure == Dispatch({"OpClosure"}) /\ Becomes(ExecClosure(vm))
OpGetFree == Dispatch({"OpGetFree"}) /\ Becomes(ExecGetFree(vm))
OpCurrentClosure == Dispatch({"OpCurrentClosure"}) /\ Becomes(ExecCurrentClosure(vm))

Next ==
    \/ ReadLine \/ Exit \/ RunOk \/ RunErr
    \/ OpConst \/ OpBinary \/ OpPop \/ OpTrue \/ OpFalse \/ OpComparison
    \/ OpMinus \/ OpBang \/ OpJump \/ OpJumpNotTruthy \/ OpNull
    \/ OpGetGlobal \/ OpSetGlobal \/ OpArray \/ OpHash \/ OpIndex
    \/ OpReturnValue \/ OpReturn \/ OpCall \/ OpTailCall
    \/ OpSetLocal \/ OpGetLocal \/ OpGetBuiltin \/ OpClosure \/ OpGetFree
    \/ OpCurrentClosure

Spec == Init /\ [][Next]_vars

\* --------------------------------------------- the symbol table on its own

\* The calls of SymbolTable's interface, made in any order on a chain of
\* tables: symbol_table[1] is a table without outer, symbol_table[d + 1] was
\* made by new_enclosed(symbol_table[d]).  output is what the last call
\* returned.  MaxDefs bounds the define calls made in all.
MaxTables == 4
MaxDefs == 3
SymNames == << "a", "b" >>

Call(call, d, name, found, symbol) == [found |-> found, symbol |-> symbol]

RECURSIVE Sum(_)
Sum(ns) == IF ns = << >> THEN 0 ELSE Head(ns) + Sum(Tail(ns))

SymInit ==
    /\ mode = "api"
    /\ overflow_checks = FALSE
    /\ session = Session("SymbolTable", 0)
    /\ line = 0
    /\ pc = "api"
    /\ symbol_table = << NewTable >>
    /\ constants = << >>
    /\ globals = << >>
    /\ compiler = NewCompiler
    /\ vm = NoVM
    /\ output = Call("new", 1, "", FALSE, NoSymbol)
    /\ defines = << 0 >>

SymUnchanged ==
    UNCHANGED << mode, overflow_checks, session, line, pc, constants, globals,
                 compiler, vm >>

\* SymbolTable::new_enclosed(outer) on the innermost table
SymEnclose ==
    /\ Len(symbol_table) < MaxTables
    /\ symbol_table' = Append(symbol_table, NewTable)
    /\ defines' = Append(defines, 0)
    /\ output' = Call("new_enclosed", Len(symbol_table) + 1, "", FALSE, NoSymbol)
    /\ SymUnchanged

\* define(name) on table d
SymDefine(d, name) ==
    /\ d <= Len(symbol_table)
    /\ Sum(defines) < MaxDefs
    /\ symbol_table' = define_at(symbol_table, d, name).st
    /\ defines' = [defines EXCEPT ![d] = @ + 1]
    /\ output' = Call("define", d, name, TRUE, define_at(symbol_table, d, name).symbol)
    /\ SymUnchanged

\* resolve(name) on table d
SymResolve(d, name) ==
    /\ d <= Len(symbol_table)
    /\ symbol_table' = resolve_at(symbol_table, d, name).st
    /\ output' = Call("resolve", d, name, resolve_at(symbol_table, d, name).found,
                      resolve_at(symbol_table, d, name).symbol)
    /\ UNCHANGED defines
    /\ SymUnchanged

\* define_builtin(index, name), which Compiler::new calls on the table
\* without outer before it is enclosed
SymDefineBuiltin(j) ==
    /\ Len(symbol_table) = 1
    /\ symbol_table' = define_builtin_at(symbol_table, 1, j - 1, SymNames[j])
    /\ output' = Call("define_builtin", 1, SymNames[j], TRUE,
                      symbol_table'[1].symbols[SymNames[j]])
    /\ UNCHANGED defines
    /\ SymUnchanged

\* define_function_name(name), which the FUNCTION arm calls on the enclosed
\* table it has just entered
SymDefineFunctionName(d, name) ==
    /\ d >= 2
    /\ d = Len(symbol_table)
    /\ symbol_table' = define_function_name_at(symbol_table, d, name)
    /\ output' = Call("define_function_name", d, name, TRUE, symbol_table'[d].symbols[name])
    /\ UNCHANGED defines
    /\ SymUnchanged

SymNext ==
    \/ SymEnclose
    \/ \E d \in 1..MaxTables, j \in 1..Len(SymNames) : SymDefine(d, SymNames[j])
    \/ \E d \in 1..MaxTables, j \in 1..Len(SymNames) : SymResolve(d, SymNames[j])
    \/ \E j \in 1..Len(SymNames) : SymDefineBuiltin(j)
    \/ \E d \in 1..MaxTables, j \in 1..Len(SymNames) : SymDefineFunctionName(d, SymNames[j])

SymSpec == SymInit /\ [][SymNext]_vars

\* The encoder driven directly: instructions are made and appended one at a
\* time, as Compiler::emit does, from every opcode and from operand lists of
\* every length up to two, with operands inside and outside the widths.
MaxCode == 2
CodeOperands == {0, 255, 256, 65535, 70000}
OperandLists ==
    {<< >>} \cup {<<x>> : x \in CodeOperands}
            \cup {<<x, y>> : x \in CodeOperands, y \in CodeOperands}

CodeInit ==
    /\ mode = "code"
    /\ overflow_checks = FALSE
    /\ session = Session("Code", 0)
    /\ line = 0
    /\ pc = "code"
    /\ symbol_table = << NewTable >>
    /\ constants = << >>
    /\ globals = << >>
    /\ compiler = NewCompiler
    /\ vm = NoVM
    /\ output = [op |-> "OpNull", operands |-> << >>, made |-> make("OpNull", << >>)]
    /\ defines = << >>

\* Compiler::emit(op, operands): make_instructions, then add_instruction; `line`
\* counts the instructions appended and `output` keeps the call and what make
\* returned for it
CodeEmit(op, operands) ==
    /\ compiler.res = "ok"
    /\ line < MaxCode
    /\ compiler' = emit(compiler, op, operands)
    /\ output' = [op |-> op, operands |-> operands, made |-> make(op, operands)]
    /\ line' = IF make(op, operands).ok THEN line + 1 ELSE line
    /\ UNCHANGED << mode, overflow_checks, session, pc, symbol_table, constants,
                    globals, vm, defines >>

CodeNext ==
    \E j \in 1..Len(Opcodes), operands \in OperandLists : CodeEmit(Opcodes[j], operands)

CodeSpec == CodeInit /\ [][CodeNext]_vars

\* ------------------------------------------------------------------- claims

\* the input has been consumed to its end
Done(name) == session.name = name /\ pc = "exit"
OkInteger(i) == output = <<"Ok", IntegerV(i)>>
\* the CompiledFunction constants of the current line's compiler
FunctionConstants ==
    {k \in 1..Len(compiler.constants) : compiler.constants[k].o = "CompiledFunction"}
Code(k) == disassemble(compiler.constants[k].func.instructions)
Instr(pos, op, operands) == [pos |-> pos, op |-> op, operands |-> operands]
IsPrefix(s, t) == Len(s) <= Len(t) /\ SubSeq(t, 1, Len(s)) = s
\* the instructions of the current line's top-level scope
MainCode == disassemble(bytecode(compiler).instructions)

\* C1: VM::run on the bytecode that compile returns ends in Ok or in
\* Err(VMError); no instruction aborts the VM.
C1_RunNeverAborts == vm.res # "panic"

\* C2: in `let x = 0; while (x < 5) { let x = x + 1 }; x` the let of the body
\* stores into the global slot that the loop condition reads (x is the only
\* global, so every OpSetGlobal and OpGetGlobal names one slot), and the run
\* ends with Integer(5).
C2_WhileRebindSameSlot ==
    /\ (session.name = "WhileRebind" /\ pc \in {"run", "exit"}) =>
          \A i, j \in 1..Len(MainCode) :
              (MainCode[i].op = "OpSetGlobal" /\ MainCode[j].op = "OpGetGlobal")
                  => MainCode[i].operands = MainCode[j].operands
    /\ Done("WhileRebind") => OkInteger(5)

\* C3 (compile time): the final self-call of countdown and of mk is compiled
\* to OpTailCall n, followed by the return.
TailCallCompiled(k, n) ==
    /\ Len(Code(k)) >= 2
    /\ Code(k)[Len(Code(k)) - 1].op = "OpTailCall"
    /\ Code(k)[Len(Code(k)) - 1].operands = <<n>>
    /\ Code(k)[Len(Code(k))].op = "OpReturnValue"
    /\ \A j \in 1..Len(Code(k)) : Code(k)[j].op # "OpCall"

\* C3 (countdown): no frame beyond the callee's is ever pushed, the run
\* neither fails nor aborts, and it returns Integer(0), at every depth.
C3_Countdown ==
    session.name = "Countdown" =>
        /\ pc # "aborted"
        /\ vm.res \notin {"err", "panic"}
        /\ vm.frame_index <= 2
        /\ (pc \in {"run", "exit"} =>
                /\ FunctionConstants # {}
                /\ \A k \in FunctionConstants : TailCallCompiled(k, 1))
        /\ (pc = "exit" => OkInteger(0))

\* C3 (run time): OpTailCall n pushes no frame, copies the n arguments to
\* stack[base..base+n], sets sp = base + num_locals and restarts the body.
C3_Step ==
    OpTailCall =>
        /\ vm'.res = "running"
        /\ vm'.frame_index = vm.frame_index
        /\ \A i \in 0..(Operand8(vm) - 1) :
              SlotGet(vm'.stack, current_frame(vm).base_pointer + i)
                  = SlotGet(vm.stack, vm.sp - Operand8(vm) + i)
        /\ vm'.sp = current_frame(vm).base_pointer
                        + current_frame(vm).closure.func.num_locals
        /\ Ip(vm') = 0
        /\ current_frame(vm').closure = current_frame(vm).closure

\* C3: a final self-call is compiled to OpTailCall, which reuses the frame,
\* so countdown(d) runs in two frames and returns Integer(0) for every d.
C3_TailCall == [](C3_Countdown) /\ [][C3_Step]_vars

C3_Witness ==
    /\ session = Session("Countdown", MaxDepth)
    /\ MaxDepth > MAX_FRAMES
    /\ pc = "exit"
    /\ OkInteger(0)

\* C4 (compile time, newAdder): the inner function loads x with OpGetFree 0;
\* the outer one loads it with OpGetLocal 0 and emits OpClosure with 1 free.
C4_NewAdderCode ==
    /\ Cardinality(FunctionConstants) = 2
    /\ \E inner, outer \in FunctionConstants :
          /\ Code(inner) = << Instr(0, "OpGetFree", <<0>>), Instr(2, "OpGetLocal", <<0>>),
                              Instr(4, "OpAdd", << >>), Instr(5, "OpReturnValue", << >>) >>
          /\ Code(outer) = << Instr(0, "OpGetLocal", <<0>>),
                              Instr(2, "OpClosure", <<inner - 1, 1>>),
                              Instr(6, "OpReturnValue", << >>) >>

\* the opcodes and operands of a function, without the positions
Ops(k) == [j \in 1..Len(Code(k)) |-> <<Code(k)[j].op, Code(k)[j].operands>>]

\* C4 (compile time, three levels): the innermost function numbers b and a
\* in the order of their first use; the middle one loads them in that order
\* (b its local, a its own free variable) before OpClosure with 2 free.
C4_Nested3Code ==
    /\ Cardinality(FunctionConstants) = 3
    /\ \E in, mid, out \in FunctionConstants :
          /\ Ops(in)[1] = <<"OpGetFree", <<0>> >>
          /\ Ops(in)[4] = <<"OpGetFree", <<1>> >>
          /\ Ops(in)[8] = <<"OpGetLocal", <<0>> >>
          /\ \A j \in 1..Len(Ops(in)) :
                Ops(in)[j][1] \in {"OpGetFree", "OpGetLocal", "OpConst", "OpMul",
                                   "OpAdd", "OpReturnValue"}
          /\ Ops(mid) = << <<"OpGetLocal", <<0>> >>, <<"OpGetFree", <<0>> >>,
                           <<"OpClosure", <<in - 1, 2>> >>, <<"OpReturnValue", << >> >> >>
          /\ Ops(out) = << <<"OpGetLocal", <<0>> >>, <<"OpClosure", <<mid - 1, 1>> >>,
                           <<"OpReturnValue", << >> >> >>

C4_Results ==
    /\ (session.name = "NewAdder" /\ pc \in {"run", "exit"}) => C4_NewAdderCode
    /\ (session.name = "Nested3" /\ pc \in {"run", "exit"}) => C4_Nested3Code
    /\ Done("NewAdder") => OkInteger(5)
    /\ Done("Nested3") => OkInteger(213)
    /\ session.name \in {"NewAdder", "Nested3"} => (pc # "aborted" /\ vm.res # "err")

\* C4 (run time): OpClosure captures the num_free values loaded before it, in
\* their order, and OpGetFree i pushes the i-th of them.
C4_Step ==
    /\ (OpClosure /\ vm'.res = "running") =>
          /\ Top(vm', 0).v = "Object"
          /\ Top(vm', 0).obj.o = "ClosureObj"
          /\ Top(vm', 0).obj.cl.free =
                [i \in 1..Operand8At(vm, 3) |->
                    into_rc_object(SlotGet(vm.stack, vm.sp - Operand8At(vm, 3) + i - 1))]
    /\ OpGetFree =>
          /\ vm'.res = "running"
          /\ Top(vm', 0) =
                from_object(current_frame(vm).closure.free[Operand8(vm) + 1])

\* C4: free variables are numbered in the order of first promotion, loaded in
\* that order before OpClosure, and read back with OpGetFree.
C4_FreeVariables == [](C4_Results) /\ [][C4_Step]_vars

C4_Witness == Done("Nested3") /\ OkInteger(213) /\ C4_Nested3Code

\* C5 (run time): the closure of a frame that stays on the frame stack does
\* not change, and OpClosure builds a free vector of the length it is given.
C5_Step ==
    /\ (pc = "run" /\ pc' = "run") =>
          \A k \in 1..vm.frame_index :
              k <= vm'.frame_index => vm'.frames[k].closure = vm.frames[k].closure
    /\ (OpClosure /\ vm'.res = "running") =>
          Len(Top(vm', 0).obj.cl.free) = Operand8At(vm, 3)

\* C5 (mk): the closure made when n was 1 still yields 1 after the tail call
\* has overwritten the slot of n with 0.
C5_Results ==
    /\ Done("CaptureThenReuse") => OkInteger(1)
    /\ session.name = "CaptureThenReuse" => (pc # "aborted" /\ vm.res # "err")

\* C5: capture is by value; a closure's free vector keeps its values and its
\* length.
C5_CaptureByValue == [](C5_Results) /\ [][C5_Step]_vars

\* the closure captured n = 1 and runs while the slot of n holds 0
C5_Witness ==
    /\ session.name = "CaptureThenReuse"
    /\ pc = "run"
    /\ vm.frame_index = 3
    /\ current_frame(vm).closure.free = << IntegerObj(1) >>
    /\ SlotGet(vm.stack, vm.frames[2].base_pointer) = IntegerV(0)
    /\ Top(vm, 0) = IntegerV(1)

\* C6: in `let name = expr`, define(name) comes before expr is compiled: an
\* occurrence of name in expr resolves to the symbol this let introduces
\* (`let y = y` compiles; in `let x = 1; let x = x + 1` the load of x in the
\* second let has the index of the store that follows it).
C6_DefineBeforeExpr ==
    /\ (session.name = "LetSelf" /\ line = 1) => compiler.res = "ok"
    /\ (session.name = "LetRebind" /\ pc \in {"run", "exit"}) =>
          /\ Len(MainCode) >= 6
          /\ MainCode[3].op = "OpGetGlobal"
          /\ MainCode[6].op = "OpSetGlobal"
          /\ MainCode[3].operands = MainCode[6].operands

\* C7 (results): at the REPL, a and f bound on lines 1 and 2 are read back on
\* lines 4 and 5 after line 3 ended with a VMError; line 6 rebinds a, which
\* lines 7 and 8 see, f still adding its constant 40.
C7_Results ==
    (mode = "repl" /\ session.name = "Repl") =>
        /\ pc # "aborted"
        /\ (pc = "read" /\ line = 3) => output[1] = "VMError"
        /\ (pc = "read" /\ line = 4) => OkInteger(7)
        /\ (pc = "read" /\ line = 5) => OkInteger(42)
        /\ (pc = "read" /\ line = 7) => OkInteger(9)
        /\ (line = 8) => OkInteger(49)
        /\ (pc = "read" /\ line \notin {0, 3}) => output[1] # "VMError"
        /\ line > 0 => output[1] # "CompileError"

\* C7 (carry-over): at the REPL the constant pool only grows from line to
\* line, and a line that ends with a VMError hands its globals, symbol table
\* and constants to the next one.
C7_Step ==
    /\ mode = "repl" => IsPrefix(constants, constants')
    /\ (mode = "repl" /\ pc = "read" /\ pc' = "run") =>
          /\ vm'.globals = globals
          /\ IsPrefix(MapFromObject(constants), vm'.constants)
    /\ (mode = "repl" /\ pc = "run" /\ pc' = "read") =>
          /\ globals' = vm.globals
          /\ symbol_table' = compiler.symbol_table
          /\ constants' = compiler.constants

\* C7: REPL persistence of globals, closures and constant indices, also
\* across lines that end with a VMError.
C7_ReplPersistence == [](C7_Results) /\ [][C7_Step]_vars

C7_Witness ==
    /\ mode = "repl"
    /\ session.name = "Repl"
    /\ pc = "exit"
    /\ line = 8
    /\ OkInteger(49)

\* C8: every compiler instance, made by Compiler::new or by new_with_state
\* with the state the REPL passes in, resolves each built-in name to a
\* Builtin symbol whose index is its position in the host's list.
C8_BuiltinsResolve ==
    \A i \in 1..Len(BuiltIns) :
        /\ resolve(LineCompiler.symbol_table, BuiltIns[i]).found
        /\ resolve(LineCompiler.symbol_table, BuiltIns[i]).symbol.scope = "Builtin"
        /\ resolve(LineCompiler.symbol_table, BuiltIns[i]).symbol.index = i - 1

\* names looked up in every symbol table the run reaches
ProbeNames == {"zz", "y", "x", "a", "f", "len"}

\* the inputs with an identifier that nothing binds, and that identifier
UndefinedSessions == {"Undefined", "UndefinedInFn", "UndefinedNested", "LetSelf"}
UndefinedName == IF session.name = "LetSelf" THEN "y" ELSE "zz"

\* C9: compile of a program with an identifier that no table of the chain
\* binds returns Err("Undefined variable '<name>'") and no Bytecode: nothing
\* is run.
C9_UndefinedVariable ==
    /\ \A name \in ProbeNames :
          ~resolve(LineCompiler.symbol_table, name).found =>
              /\ compile(LineCompiler, << ExprStmt(Ident(name)) >>).res = "err"
              /\ compile(LineCompiler, << ExprStmt(Ident(name)) >>).msg
                     = <<"Undefined variable", name>>
    /\ (session.name \in UndefinedSessions /\ line = 0) => (pc = "read" /\ vm = NoVM)
    /\ (session.name \in UndefinedSessions /\ line = 1 /\ pc = "read") =>
          /\ compiler.res = "err"
          /\ compiler.msg = <<"Undefined variable", UndefinedName>>
          /\ output = <<"CompileError", compiler.msg>>
          /\ vm = NoVM

C9_Witness ==
    /\ session.name = "UndefinedNested"
    /\ line = 1
    /\ compiler.res = "err"
    /\ compiler.msg = <<"Undefined variable", "zz">>
    /\ Len(compiler.symbol_table) = 3

\* C10: compile never aborts on integer literals: folding `a op b` and `-a`
\* gives Ok(Bytecode) or Err(CompileError), also where the result overflows.
C10_FoldNeverAborts ==
    session.name \in {"Fold", "FoldPrefix"} => compiler.res # "panic"

\* the keys among the `count` values on top of the stack: every second one
HashKeys(m, count) ==
    {into_rc_object(SlotGet(m.stack, m.sp - count + 2 * j)) : j \in 0..((count \div 2) - 1)}

\* C11: executing OpHash count where one of the popped keys is not an Integer,
\* a Boolean or a String makes run return a VMError; it does not abort the VM.
C11_HashKeyError ==
    (/\ Dispatch({"OpHash"})
     /\ CanPop(vm, Operand16(vm))
     /\ \E key \in HashKeys(vm, Operand16(vm)) : ~is_hashable(key))
       => ExecHash(vm).res = "err"

\* the callee of the OpCall about to execute: stack[sp - 1 - n]
Callee(m) == Top(m, Operand8(m))
IsClosure(val) == val.v = "Object" /\ val.obj.o = "ClosureObj"
IsBuiltin(val) == val.v = "Object" /\ val.obj.o = "Builtin"

\* C12: OpCall n reads the callee at stack[sp - 1 - n].  A Closure with
\* num_parameters = n gets a new frame with base_pointer = sp - n and ip before
\* its first instruction, and sp becomes base_pointer + num_locals, the stack
\* unchanged, so the n arguments are its locals 0..n-1 (below the frame
\* capacity MAX_FRAMES).  A Closure with another arity gives
\* WrongArity{expected: num_parameters, got: n} and no frame.  A callee that is
\* neither a Closure nor a Builtin gives NotCallable.
C12_Step ==
    OpCall =>
      LET n == Operand8(vm)
          callee == Callee(vm)
      IN /\ (IsClosure(callee) /\ callee.obj.cl.func.num_parameters = n
                 /\ vm.frame_index < MAX_FRAMES) =>
               /\ vm'.res = "running"
               /\ vm'.frame_index = vm.frame_index + 1
               /\ current_frame(vm') = [closure |-> callee.obj.cl, ip |-> 0 - 1,
                                        base_pointer |-> vm.sp - n]
               /\ vm'.sp = vm.sp - n + callee.obj.cl.func.num_locals
               /\ vm'.stack = vm.stack
               /\ vm'.sp >= vm.sp
         /\ (IsClosure(callee) /\ callee.obj.cl.func.num_parameters # n) =>
               /\ vm'.res = "err"
               /\ vm'.error = <<"WrongArity", callee.obj.cl.func.num_parameters, n>>
               /\ vm'.frame_index = vm.frame_index
         /\ (~IsClosure(callee) /\ ~IsBuiltin(callee)) =>
               /\ vm'.res = "err"
               /\ vm'.error[1] = "NotCallable"
               /\ vm'.frame_index = vm.frame_index

Below(m, k) == [i \in 0..(k - 1) |-> SlotGet(m.stack, i)]

\* what a return in a callee's frame leaves: the caller's frames as they were
\* (the caller resumes after its OpCall), sp at the callee's base_pointer, the
\* returned value in the callee's slot and the slots below it unchanged
Returned(val) ==
    LET bp == current_frame(vm).base_pointer
    IN /\ vm'.frame_index = vm.frame_index - 1
       /\ vm'.frames = SubSeq(vm.frames, 1, vm.frame_index - 1)
       /\ vm'.sp = bp
       /\ SlotGet(vm'.stack, bp - 1) = val
       /\ Below(vm', bp - 1) = Below(vm, bp - 1)

\* C13: call/return balance.  OpCall n on a closure with sp = s makes the
\* callee's frame with base_pointer = s - n and leaves the caller's ip on the
\* operand of its OpCall; while that frame or a deeper one is current no step
\* changes a stack slot below s - n - 1 or a frame of a caller; the OpReturnValue
\* or OpReturn of the activation restores frame_index, sets sp = s - n and puts
\* the returned value (Null for OpReturn) into slot s - n - 1.
C13_Step ==
    /\ (OpCall /\ IsClosure(Callee(vm)) /\ vm'.res = "running") =>
          /\ current_frame(vm').base_pointer = vm.sp - Operand8(vm)
          /\ vm'.frames[vm.frame_index].ip = Ip(vm) + 1
    /\ (OpReturnValue /\ vm.frame_index >= 2 /\ vm'.res = "running") =>
          Returned(Top(vm, 0))
    /\ (OpReturn /\ vm.frame_index >= 2 /\ vm'.res = "running") =>
          Returned(NullV)
    /\ (pc = "run" /\ vm.res = "running" /\ vm.frame_index >= 2
           /\ vm'.frame_index >= vm.frame_index) =>
          /\ Below(vm', current_frame(vm).base_pointer - 1)
                = Below(vm, current_frame(vm).base_pointer - 1)
          /\ SubSeq(vm'.frames, 1, vm.frame_index - 1)
                = SubSeq(vm.frames, 1, vm.frame_index - 1)

C13_CallReturnBalance == [][C13_Step]_vars

IsJump(ins) == ins.op \in {"OpJump", "OpJumpNotTruthy"}

\* every jump of `code` targets the first byte of an instruction of `code`,
\* or its length
TargetsBoundaries(bytes) ==
    LET code == disassemble(bytes)
    IN \A j \in 1..Len(code) :
          IsJump(code[j]) =>
             code[j].operands[1] \in {code[i].pos : i \in 1..Len(code)} \cup {Len(bytes)}

\* the jumps of `code`, each with its offset and its target
JumpsOf(code) == SelectSeq(code, IsJump)

Jnt(pos, target) == Instr(pos, "OpJumpNotTruthy", <<target>>)
Jmp(pos, target) == Instr(pos, "OpJump", <<target>>)

\* The jumps of the five lines of JumpLines.  In each `if` the conditional
\* jump names the offset after the OpJump (the first instruction of the
\* alternative, or the OpNull standing for it) and the OpJump the offset after
\* the alternative; in each `while` the conditional jump names the OpNull
\* after the loop and the OpJump the first instruction of the condition.
JumpLinesMain ==
    << << Jnt(1, 10), Jmp(7, 11) >>,
       << Jnt(1, 10), Jmp(7, 13) >>,
       << Jnt(1, 11), Jmp(8, 0) >>,
       << Jnt(1, 27), Jnt(5, 23), Jnt(9, 18), Jmp(15, 19), Jmp(20, 4), Jmp(24, 40),
          Jnt(28, 37), Jmp(34, 40) >>,
       << >> >>
JumpLinesFunction == << Jnt(2, 11), Jmp(8, 24), Jnt(13, 23), Jmp(20, 11) >>

\* C14: after back-patching, in the instructions of the top level and of every
\* compiled function the operand of each OpJump and OpJumpNotTruthy is the
\* offset of the first byte of an instruction of that sequence (or its
\* length); the jumps of an if and of a while name the targets listed above,
\* also nested and after remove_last_pop and replace_last_pop_with_return.
C14_JumpTargets ==
    compiler.res = "ok" =>
      /\ TargetsBoundaries(bytecode(compiler).instructions)
      /\ \A k \in FunctionConstants :
            TargetsBoundaries(compiler.constants[k].func.instructions)
      /\ (session.name = "Jumps" /\ pc = "run") =>
            /\ JumpsOf(MainCode) = JumpLinesMain[line + 1]
            /\ \A k \in FunctionConstants :
                  (mode = "test" \/ k = Len(compiler.constants)) =>
                      JumpsOf(Code(k)) = JumpLinesFunction

\* the five lines have been compiled and run; the last one yields Null from
\* the loop in the function's alternative
C14_Witness == Done("Jumps") /\ output = <<"Ok", NullV>>

RECURSIVE FlattenPairs(_)
FlattenPairs(ps) ==
    IF ps = << >> THEN << >> ELSE <<Head(ps)[1], Head(ps)[2]>> \o FlattenPairs(Tail(ps))

\* the statements and expressions directly inside a node of the AST, in the
\* order in which compile_stmt / compile_expr compile them
Parts(n) ==
    CASE n.k \in {"Let", "Expr"} -> <<n.expr>>
      [] n.k = "Return" -> <<n.argument>>
      [] n.k = "Array" -> n.elements
      [] n.k = "Hash" -> FlattenPairs(n.pairs)
      [] n.k = "PREFIX" -> <<n.operand>>
      [] n.k = "INFIX" ->
            IF n.op \in {"LT", "GTE"} THEN <<n.right, n.left>> ELSE <<n.left, n.right>>
      [] n.k = "IF" -> <<n.condition>> \o n.consequent \o n.alternate
      [] n.k = "While" -> <<n.condition>> \o n.body
      [] n.k = "Index" -> <<n.object, n.index>>
      [] n.k = "FUNCTION" -> n.body
      [] n.k = "FunctionCall" -> <<n.callee>> \o n.arguments
      [] OTHER -> << >>

RECURSIVE FunctionsOf(_)
RECURSIVE FunctionsIn(_)
\* the function literals of a node, in the order in which their
\* CompiledFunctions are added to the pool (an inner one before its outer)
FunctionsOf(n) ==
    FunctionsIn(Parts(n)) \o (IF n.k = "FUNCTION" THEN <<n>> ELSE << >>)
FunctionsIn(ns) ==
    IF ns = << >> THEN << >> ELSE FunctionsOf(Head(ns)) \o FunctionsIn(Tail(ns))

RECURSIVE LetsOf(_)
RECURSIVE LetsIn(_)
\* the let statements of a node, those of nested function literals excluded
LetsOf(n) ==
    IF n.k = "FUNCTION" THEN 0
    ELSE (IF n.k = "Let" THEN 1 ELSE 0) + LetsIn(Parts(n))
LetsIn(ns) == IF ns = << >> THEN 0 ELSE LetsOf(Head(ns)) + LetsIn(Tail(ns))

IsCompiledFunction(obj) == obj.o = "CompiledFunction"

\* the CompiledFunctions the line in hand added to the pool: the last ones
LineFunctions ==
    LET all == SelectSeq(compiler.constants, IsCompiledFunction)
        n == Len(FunctionsIn(Program))
    IN SubSeq(all, Len(all) - n + 1, Len(all))

\* C15: the CompiledFunction of a function literal with K parameters has
\* num_parameters = K and num_locals = K + the number of let statements of its
\* body (nested function bodies excluded), so num_locals >= K; the function's
\* name, built-ins and promoted free variables take no slot; every
\* OpGetLocal/OpSetLocal operand in its code is below num_locals.
C15_NumLocals ==
    compiler.res = "ok" =>
      /\ \A k \in FunctionConstants :
            LET f == compiler.constants[k].func
            IN /\ f.num_locals >= f.num_parameters
               /\ \A j \in 1..Len(Code(k)) :
                     Code(k)[j].op \in {"OpGetLocal", "OpSetLocal"} =>
                        Code(k)[j].operands[1] < f.num_locals
      /\ pc = "run" =>
            /\ Len(LineFunctions) = Len(FunctionsIn(Program))
            /\ \A j \in 1..Len(LineFunctions) :
                  LET lit == FunctionsIn(Program)[j]
                      f == LineFunctions[j].func
                  IN /\ f.num_parameters = Len(lit.params)
                     /\ f.num_locals = Len(lit.params) + LetsIn(lit.body)

\* outer (two parameters, three lets, one of them in an if block) and inner
\* (one parameter, two lets, a free variable, a global and a built-in) have
\* been compiled and run
C15_Witness ==
    /\ Done("LocalsCount")
    /\ OkInteger(6)
    /\ \E k \in FunctionConstants :
          compiler.constants[k].func.num_parameters = 2
            /\ compiler.constants[k].func.num_locals = 5

\* a VM with x and then y pushed
Stacked(x, y) == push(push(NewVM([instructions |-> << >>, constants |-> << >>]), x), y)

\* the VM after the opcodes of the unfolded lowering of `a op b` have executed
\* on the integers a and b
Lowered(op, a, b) ==
    LET l == IntegerV(a)
        r == IntegerV(b)
    IN CASE op = "LT" -> execute_comparison(Stacked(r, l), "OpGreaterThan")
         [] op = "LTE" ->
               execute_bang_operation(execute_comparison(Stacked(l, r), "OpGreaterThan"))
         [] op = "GTE" ->
               execute_bang_operation(execute_comparison(Stacked(r, l), "OpGreaterThan"))
         [] op \in {"GT", "EQ", "NotEq"} ->
               execute_comparison(Stacked(l, r), InfixOpcode(op))
         [] OTHER -> execute_binary_operation(Stacked(l, r), InfixOpcode(op))

\* the VM after the unfolded lowering of `-a` or `!a`
LoweredPrefix(op, a) ==
    IF op = "BANG"
    THEN execute_bang_operation(push(Stacked(NullV, NullV), BooleanV(a = 1)))
    ELSE execute_minus_operation(push(Stacked(NullV, NullV), IntegerV(a)))

\* the operation on the session's literals stays in the integer range
FoldInRange ==
    CASE session.op = "PLUS" -> InRange(session.a + session.b)
      [] session.op = "MINUS" /\ session.name \in {"Fold", "Unfold"} ->
            InRange(session.a - session.b)
      [] session.op = "MINUS" -> InRange(0 - session.a)
      [] session.op = "ASTERISK" -> InRange(session.a * session.b)
      [] session.op \in {"SLASH", "PERCENT"} ->
            session.b # 0 /\ ~DivOverflows(session.a, session.b)
      [] OTHER -> TRUE

\* the value the VM leaves for the session's operation, unfolded
UnfoldedValue ==
    IF session.name \in {"Fold", "Unfold"}
    THEN Top(Lowered(session.op, session.a, session.b), 0)
    ELSE Top(LoweredPrefix(session.op, session.a), 0)

MainOps == [j \in 1..Len(MainCode) |-> <<MainCode[j].op, MainCode[j].operands>>]

\* the folded code: one constant, or OpTrue / OpFalse, and the statement's OpPop
FoldedCode(val) ==
    IF val.v = "Integer"
    THEN /\ MainOps = << <<"OpConst", <<0>> >>, <<"OpPop", << >> >> >>
         /\ compiler.constants = << IntegerObj(val.i) >>
    ELSE /\ MainOps = << <<IF val.b THEN "OpTrue" ELSE "OpFalse", << >> >>,
                        <<"OpPop", << >> >> >>
         /\ compiler.constants = << >>

ComparisonCode(op) ==
    LET a == <<"OpGetGlobal", <<0>> >>
        b == <<"OpGetGlobal", <<1>> >>
        gt == <<"OpGreaterThan", << >> >>
        bang == <<"OpBang", << >> >>
    IN CASE op = "LT" -> <<b, a, gt>>
         [] op = "LTE" -> <<a, b, gt, bang>>
         [] op = "GTE" -> <<b, a, gt, bang>>
         [] op = "GT" -> <<a, b, gt>>

Compared(op, a, b) ==
    CASE op = "LT" -> a < b
      [] op = "LTE" -> a <= b
      [] op = "GTE" -> a >= b
      [] op = "GT" -> a > b

\* C17: for integers a and b loaded at run time, a < b is lowered to b, a,
\* OpGreaterThan, a <= b to a, b, OpGreaterThan, OpBang, a >= b to b, a,
\* OpGreaterThan, OpBang and a > b to a, b, OpGreaterThan, and the run leaves
\* Boolean(a < b), Boolean(a <= b), Boolean(a >= b) and Boolean(a > b).
C17_Comparisons ==
    (session.name = "Unfold" /\ session.op \in {"LT", "LTE", "GTE", "GT"}) =>
       /\ pc # "aborted"
       /\ (pc \in {"run", "exit"}) =>
             /\ compiler.res = "ok"
             /\ SubSeq(MainOps, 5, Len(MainOps))
                   = ComparisonCode(session.op) \o << <<"OpPop", << >> >> >>
       /\ (pc = "exit") =>
             output = <<"Ok", BooleanV(Compared(session.op, session.a, session.b))>>

\* `let a = 1; let b = 1; a <= b` has run and left true
C17_Witness ==
    /\ session = [name |-> "Unfold", op |-> "LTE", a |-> 1, b |-> 1]
    /\ pc = "exit"
    /\ output = <<"Ok", BooleanV(TRUE)>>
    /\ vm.globals # << >>

IsArray(val) == val.v = "Object" /\ val.obj.o = "Array"
IsHash(val) == val.v = "Object" /\ val.obj.o = "Hash"
\* an Integer, a Boolean or a String
IsHashableValue(val) ==
    val.v \in {"Integer", "Boolean"} \/ (val.v = "Object" /\ val.obj.o = "String")

\* the step popped two values and pushed val, the stack below left alone
IndexPushed(val) ==
    /\ vm'.res = "running"
    /\ vm'.sp = vm.sp - 1
    /\ Top(vm', 0) = val
    /\ Below(vm', vm.sp - 2) = Below(vm, vm.sp - 2)
    /\ Ip(vm') = Ip(vm) + 1

IndexFailed == vm'.res = "err" /\ vm'.error[1] = "IndexError"

C18_Step ==
    OpIndex =>
      /\ (IsArray(Top(vm, 1)) /\ Top(vm, 0).v = "Integer") =>
            IF 0 <= Top(vm, 0).i /\ Top(vm, 0).i < Len(Top(vm, 1).obj.elems)
            THEN IndexPushed(from_object(Top(vm, 1).obj.elems[Top(vm, 0).i + 1]))
            ELSE IndexPushed(NullV)
      /\ (IsHash(Top(vm, 1)) /\ IsHashableValue(Top(vm, 0))) =>
            IF HashKeyOf(into_rc_object(Top(vm, 0))) \in DOMAIN Top(vm, 1).obj.pairs
            THEN IndexPushed(from_object(
                    Top(vm, 1).obj.pairs[HashKeyOf(into_rc_object(Top(vm, 0)))]))
            ELSE IndexPushed(NullV)
      /\ (IsHash(Top(vm, 1)) /\ ~IsHashableValue(Top(vm, 0))) => IndexFailed
      /\ (IsArray(Top(vm, 1)) /\ Top(vm, 0).v # "Integer") => IndexFailed
      /\ (~IsArray(Top(vm, 1)) /\ ~IsHash(Top(vm, 1))) => IndexFailed

\* what the lines of IndexLines print
IndexOutputs ==
    << <<"Ok", IntegerV(1)>>, <<"Ok", IntegerV(3)>>, <<"Ok", NullV>>, <<"Ok", NullV>>,
       <<"Ok", IntegerV(10)>>, <<"Ok", IntegerV(20)>>, <<"Ok", IntegerV(30)>>,
       <<"Ok", NullV>>, <<"Ok", NullV>>,
       <<"VMError", "IndexError">>, <<"VMError", "IndexError">>,
       <<"VMError", "IndexError">>, <<"VMError", "IndexError">>,
       <<"VMError", "IndexError">>, <<"VMError", "IndexError">>,
       <<"VMError", "IndexError">>, <<"VMError", "IndexError">> >>

C18_Results ==
    (session.name = "Indexes" /\ pc \in {"read", "exit"} /\ line >= 1) =>
       /\ output[1] = IndexOutputs[line][1]
       /\ IF output[1] = "Ok" THEN output[2] = IndexOutputs[line][2]
          ELSE output[2][1] = IndexOutputs[line][2]

\* C18: OpIndex pops the index and then the object and pushes one value or
\* fails.  An array indexed by an Integer i gives element i when
\* 0 <= i < len and Null otherwise; a hash indexed by an Integer, Boolean or
\* String gives the stored value when the key is present and Null otherwise;
\* a hash indexed by another value, an array indexed by a non-integer, and
\* every object that is neither give IndexError.
C18_Index == [](C18_Results) /\ [][C18_Step]_vars

\* every line of IndexLines has run, the last one failing on Null[0]
C18_Witness ==
    /\ Done("Indexes")
    /\ line = Len(IndexLines)
    /\ output[1] = "VMError"
    /\ output[2][1] = "IndexError"

IsFalsy(val) == val = BooleanV(FALSE) \/ val = NullV

C19_Step ==
    OpJumpNotTruthy =>
      /\ vm'.res = "running"
      /\ vm'.sp = vm.sp - 1
      /\ vm'.stack = vm.stack
      /\ vm'.frame_index = vm.frame_index
      /\ Ip(vm') = IF IsFalsy(Top(vm, 0)) THEN Operand16(vm) ELSE Ip(vm) + 3

\* what the lines of TruthyLines leave: 1 when execution continued with the
\* next instruction, 2 when it jumped
TruthyOutputs == << 1, 2, 1, 1, 1, 1, 1, 1, 2, 1 >>

C19_Results ==
    (session.name = "Truthy" /\ pc \in {"read", "exit"} /\ line >= 1
        /\ (line = Len(TruthyLines) => mode = "test")) =>
       OkInteger(TruthyOutputs[line])

\* C19: OpJumpNotTruthy pops exactly one value and sets the instruction
\* pointer to its target if and only if the value is Boolean(false) or Null;
\* for Boolean(true), every Integer (0 too), strings, arrays, hashes, closures
\* and built-ins execution continues with the next instruction.
C19_JumpNotTruthy == [](C19_Results) /\ [][C19_Step]_vars

\* every condition has been tried; the last one is the built-in len
C19_Witness ==
    /\ Done("Truthy")
    /\ mode = "test"
    /\ line = Len(TruthyLines)
    /\ OkInteger(1)

C20_Step ==
    OpBang =>
      /\ vm'.res = "running"
      /\ vm'.sp = vm.sp
      /\ Below(vm', vm.sp - 1) = Below(vm, vm.sp - 1)
      /\ Ip(vm') = Ip(vm) + 1
      /\ Top(vm', 0) = IF Top(vm, 0).v = "Boolean" THEN BooleanV(~Top(vm, 0).b)
                       ELSE BooleanV(FALSE)

\* what the lines of BangLines print: !5, !!5, !Null, !0, !"s", ![], !fn,
\* !(1 == 1), !(1 != 1)
BangOutputs == << FALSE, TRUE, FALSE, FALSE, FALSE, FALSE, FALSE, FALSE, TRUE >>

C20_Results ==
    (session.name = "Bangs" /\ pc \in {"read", "exit"} /\ line >= 1) =>
       output = <<"Ok", BooleanV(BangOutputs[line])>>

\* C20: OpBang pops one value and pushes Boolean(not b) for Boolean(b) and
\* Boolean(false) for every other value, Null and every Integer included:
\* !5 is false, !!5 is true and !Null is false.
C20_Bang == [](C20_Results) /\ [][C20_Step]_vars

\* every line of BangLines has run, !Null among them
C20_Witness ==
    /\ Done("Bangs")
    /\ line = Len(BangLines)
    /\ output = <<"Ok", BooleanV(TRUE)>>

IsInteger(val) == val.v = "Integer"
IsBoolean(val) == val.v = "Boolean"
IsString(val) == val.v = "Object" /\ val.obj.o = "String"

\* the opcode about to be dispatched
Current(m) == cast_u8_to_opcode(Ins(m)[Ip(m) + 1])

\* the host's result of an arithmetic opcode on two integers
Arith(opcode, l, r) ==
    CASE opcode = "OpAdd" -> l + r
      [] opcode = "OpSub" -> l - r
      [] opcode = "OpMul" -> l * r
      [] opcode = "OpDiv" -> TruncDiv(l, r)
      [] opcode = "OpModulo" -> TruncRem(l, r)

\* the host's integer operation has a result: it does not trap
ArithDefined(opcode, l, r) ==
    IF opcode \in {"OpDiv", "OpModulo"} THEN r # 0 /\ ~DivOverflows(l, r)
    ELSE InRange(Arith(opcode, l, r)) \/ ~overflow_checks

\* the step popped `count` values and pushed val
Replaced(count, val) ==
    /\ vm'.res = "running"
    /\ vm'.sp = vm.sp - count + 1
    /\ Top(vm', 0) = val
    /\ Below(vm', vm.sp - count) = Below(vm, vm.sp - count)

TypeFailed == vm'.res = "err" /\ vm'.error[1] = "TypeError"

Compare(opcode, l, r) ==
    CASE opcode = "OpEqual" -> l = r
      [] opcode = "OpNotEqual" -> l # r
      [] opcode = "OpGreaterThan" -> l > r

C21_Binary ==
    OpBinary =>
      /\ (IsInteger(Top(vm, 1)) /\ IsInteger(Top(vm, 0))
             /\ ArithDefined(Current(vm), Top(vm, 1).i, Top(vm, 0).i)) =>
            Replaced(2, IntegerV(Wrap(Arith(Current(vm), Top(vm, 1).i, Top(vm, 0).i))))
      /\ (IsString(Top(vm, 1)) /\ IsString(Top(vm, 0)) /\ Current(vm) = "OpAdd") =>
            Replaced(2, ObjectV(StringObj(Top(vm, 1).obj.s \o Top(vm, 0).obj.s)))
      /\ (/\ ~(IsInteger(Top(vm, 1)) /\ IsInteger(Top(vm, 0)))
          /\ ~(IsString(Top(vm, 1)) /\ IsString(Top(vm, 0)) /\ Current(vm) = "OpAdd")) =>
            TypeFailed

C21_Comparison ==
    OpComparison =>
      /\ (IsInteger(Top(vm, 1)) /\ IsInteger(Top(vm, 0))) =>
            Replaced(2, BooleanV(Compare(Current(vm), Top(vm, 1).i, Top(vm, 0).i)))
      /\ (IsBoolean(Top(vm, 1)) /\ IsBoolean(Top(vm, 0)) /\ Current(vm) # "OpGreaterThan") =>
            Replaced(2, BooleanV(IF Current(vm) = "OpEqual"
                                 THEN Top(vm, 1).b = Top(vm, 0).b
                                 ELSE Top(vm, 1).b # Top(vm, 0).b))
      /\ (/\ ~(IsInteger(Top(vm, 1)) /\ IsInteger(Top(vm, 0)))
          /\ ~(IsBoolean(Top(vm, 1)) /\ IsBoolean(Top(vm, 0))
                 /\ Current(vm) # "OpGreaterThan")) =>
            TypeFailed

C21_Minus ==
    OpMinus =>
      /\ (IsInteger(Top(vm, 0)) /\ ArithDefined("OpSub", 0, Top(vm, 0).i)) =>
            Replaced(1, IntegerV(Wrap(0 - Top(vm, 0).i)))
      /\ ~IsInteger(Top(vm, 0)) => TypeFailed

\* after run has returned an error nothing more of the line is executed: the
\* only step is main's, which prints the error and keeps the globals as the
\* failing instruction left them
C21_Stops ==
    (pc = "run" /\ vm.res = "err") =>
       /\ vm' = vm
       /\ pc' = "read"
       /\ output' = <<"VMError", vm.error>>
       /\ globals' = vm.globals

C21_Step == C21_Binary /\ C21_Comparison /\ C21_Minus /\ C21_Stops

\* what the lines of TypeLines print
TypeError == <<"VMError", "TypeError">>
TypeOutputs ==
    << TypeError, <<"Ok", ObjectV(StringObj("ab"))>>, TypeError, TypeError, TypeError,
       TypeError, TypeError, <<"Ok", BooleanV(TRUE)>>, <<"Ok", BooleanV(TRUE)>>,
       TypeError, TypeError, TypeError, TypeError, TypeError, TypeError, TypeError >>

C21_Results ==
    (session.name = "Types" /\ pc \in {"read", "exit"} /\ line >= 1) =>
       /\ (line <= Len(TypeOutputs)) =>
             /\ output[1] = TypeOutputs[line][1]
             /\ IF output[1] = "Ok" THEN output[2] = TypeOutputs[line][2]
                ELSE output[2][1] = TypeOutputs[line][2]
       /\ (line = Len(TypeOutputs)) => globals = << IntegerV(1) >>
       /\ (line = Len(TypeLines) /\ mode = "repl") => OkInteger(1)

Symbol(name, scope, index) == [name |-> name, scope |-> scope, index |-> index]

\* the tables other than d, and the other names of table d, are as they were
OnlyRebinds(d, name) ==
    /\ Len(symbol_table') = Len(symbol_table)
    /\ \A e \in 1..Len(symbol_table) : e # d => symbol_table'[e] = symbol_table[e]
    /\ symbol_table'[d].free_symbols = symbol_table[d].free_symbols
    /\ DOMAIN symbol_table'[d].symbols = DOMAIN symbol_table[d].symbols \cup {name}
    /\ \A n \in DOMAIN symbol_table[d].symbols :
          n # name => symbol_table'[d].symbols[n] = symbol_table[d].symbols[n]

C22_Step ==
    \A d \in 1..MaxTables, j \in 1..Len(SymNames) :
       SymDefine(d, SymNames[j]) =>
          /\ output'.symbol = Symbol(SymNames[j], IF d = 1 THEN "Global" ELSE "Local",
                                     defines[d])
          /\ resolve_at(symbol_table', d, SymNames[j])
                = [st |-> symbol_table', found |-> TRUE, symbol |-> output'.symbol]
          /\ OnlyRebinds(d, SymNames[j])

\* C22: define(name) on a table without outer returns a symbol of scope
\* Global, on an enclosed table of scope Local; its index is the number of
\* define calls made before on that table, also when the name is already
\* bound there; afterwards resolve(name) on that table returns the symbol just
\* created, whatever the name was bound to before (Local, Free, Builtin or
\* Function).
C22_Define == [][C22_Step]_vars

\* in the third table a was promoted to Free and then defined, as the
\* table's second definition
C22_Witness ==
    /\ mode = "api"
    /\ Len(symbol_table) >= 3
    /\ defines[3] = 2
    /\ Len(symbol_table[3].free_symbols) = 1
    /\ symbol_table[3].free_symbols[1].name = "a"
    /\ output = [found |-> TRUE, symbol |-> Symbol("a", "Local", 1)]
    /\ symbol_table[3].symbols["a"] = Symbol("a", "Local", 1)

\* the nearest table enclosing table d that binds name, 0 if there is none
RECURSIVE BindingDepth(_, _)
BindingDepth(d, name) ==
    IF d <= 1 THEN 0
    ELSE IF name \in DOMAIN symbol_table[d - 1].symbols THEN d - 1
    ELSE BindingDepth(d - 1, name)

\* resolve(name) on table d has to promote: the name is not bound in d, and
\* the nearest enclosing binding is a Local or a Free of a table with an outer
Promotes(d, name) ==
    /\ name \notin DOMAIN symbol_table[d].symbols
    /\ BindingDepth(d, name) >= 2
    /\ symbol_table[BindingDepth(d, name)].symbols[name].scope \in {"Local", "Free"}

\* table e got a Free entry for name, numbered by its place in the free list,
\* to which the enclosing table's symbol was appended
Promoted(e, name) ==
    /\ symbol_table'[e].symbols =
          (name :> Symbol(name, "Free", Len(symbol_table[e].free_symbols)))
             @@ symbol_table[e].symbols
    /\ symbol_table'[e].free_symbols =
          Append(symbol_table[e].free_symbols, symbol_table'[e - 1].symbols[name])
    /\ symbol_table'[e].num_definitions = symbol_table[e].num_definitions

C23_Step ==
    \A d \in 1..MaxTables, j \in 1..Len(SymNames) :
       SymResolve(d, SymNames[j]) =>
          /\ Promotes(d, SymNames[j]) =>
                /\ output' = [found |-> TRUE,
                              symbol |-> Symbol(SymNames[j], "Free",
                                                Len(symbol_table[d].free_symbols))]
                /\ Len(symbol_table') = Len(symbol_table)
                /\ \A e \in 1..Len(symbol_table) :
                      IF BindingDepth(d, SymNames[j]) < e /\ e <= d
                      THEN Promoted(e, SymNames[j])
                      ELSE symbol_table'[e] = symbol_table[e]
          /\ (/\ SymNames[j] \in DOMAIN symbol_table[d].symbols
              /\ symbol_table[d].symbols[SymNames[j]].scope = "Free") =>
                /\ output' = [found |-> TRUE,
                              symbol |-> symbol_table[d].symbols[SymNames[j]]]
                /\ symbol_table' = symbol_table

\* no free list names a symbol twice, and a Free symbol's index is the place
\* of its original in the table's free list
C23_FreeLists ==
    mode = "api" =>
      \A d \in 1..Len(symbol_table) :
         /\ \A i, k \in 1..Len(symbol_table[d].free_symbols) :
               i # k => symbol_table[d].free_symbols[i].name
                          # symbol_table[d].free_symbols[k].name
         /\ \A n \in DOMAIN symbol_table[d].symbols :
               symbol_table[d].symbols[n].scope = "Free" =>
                  /\ symbol_table[d].symbols[n].index < Len(symbol_table[d].free_symbols)
                  /\ symbol_table[d].free_symbols[symbol_table[d].symbols[n].index + 1].name = n

\* C23: resolve(name) on an enclosed table that does not bind name, where the
\* nearest enclosing binding is a Local or Free of a non-global table, returns
\* a Free symbol numbered by its place in the table's free list and appends the
\* enclosing table's symbol to that list once; every table between the
\* binding one and the current one gets its own Free entry; further resolves
\* return the same symbol and change no free list, so the free lists hold
\* the captured originals in order of first promotion, without duplicates.
C23_Promotion == [](C23_FreeLists) /\ [][C23_Step]_vars

\* b and then a, locals of the second table, were resolved from the fourth:
\* the third and the fourth table each hold them as Free 0 and Free 1
C23_Witness ==
    /\ mode = "api"
    /\ Len(symbol_table) = 4
    /\ symbol_table[2].symbols = ("a" :> Symbol("a", "Local", 0)) @@ ("b" :> Symbol("b", "Local", 1))
    /\ symbol_table[3].free_symbols = << Symbol("b", "Local", 1), Symbol("a", "Local", 0) >>
    /\ symbol_table[4].free_symbols = << Symbol("b", "Free", 0), Symbol("a", "Free", 1) >>
    /\ output = [found |-> TRUE, symbol |-> Symbol("a", "Free", 1)]

\* the table without outer of the compiler in hand, enclosed twice
Enclosed2 == << compiler.symbol_table[1], NewTable, NewTable >>

\* every OpClosure of the code captures nothing
NoFree(code) == \A j \in 1..Len(code) : code[j].op = "OpClosure" => code[j].operands[2] = 0

\* the code never loads a captured value
NoGetFree(code) == \A j \in 1..Len(code) : code[j].op # "OpGetFree"

\* fn() { g + h } and fn() { len([z]) + z }
GlobalsInnermost ==
    << << <<"OpGetGlobal", <<0>> >>, <<"OpGetGlobal", <<1>> >>, <<"OpAdd", << >> >>,
          <<"OpReturnValue", << >> >> >>,
       << <<"OpGetBuiltin", <<0>> >>, <<"OpGetGlobal", <<0>> >>, <<"OpArray", <<1>> >>,
          <<"OpCall", <<1>> >>, <<"OpGetGlobal", <<0>> >>, <<"OpAdd", << >> >>,
          <<"OpReturnValue", << >> >> >> >>

\* C24: a name bound as Global or Builtin in the outermost table resolves
\* from a table two levels deeper to the symbol with its scope and index, and
\* the resolution changes no table (no free list grows); a function body loads
\* it with OpGetGlobal k or OpGetBuiltin k, and the OpClosure of a function
\* that references only globals, built-ins, its parameters and its lets has
\* num_free = 0.
C24_GlobalsBuiltins ==
    (mode # "api") =>
      /\ \A n \in DOMAIN compiler.symbol_table[1].symbols :
            /\ compiler.symbol_table[1].symbols[n].scope \in {"Global", "Builtin"}
            /\ resolve(Enclosed2, n)
                  = [st |-> Enclosed2, found |-> TRUE,
                     symbol |-> compiler.symbol_table[1].symbols[n]]
      /\ (session.name = "Globals" /\ pc = "run") =>
            /\ NoFree(MainCode)
            /\ \A k \in FunctionConstants : NoFree(Code(k)) /\ NoGetFree(Code(k))
            /\ \E k \in FunctionConstants : Ops(k) = GlobalsInnermost[line + 1]
      /\ (session.name = "Globals" /\ pc \in {"read", "exit"} /\ line = 1) => OkInteger(15)
      /\ (session.name = "Globals" /\ pc \in {"read", "exit"} /\ line = 2 /\ mode = "test") =>
            OkInteger(6)

\* both lines have run: the innermost functions read g, h, z and len
C24_Witness ==
    /\ Done("Globals")
    /\ mode = "test"
    /\ OkInteger(6)
    /\ \E k \in FunctionConstants : Ops(k) = GlobalsInnermost[2]

\* the pool after the first line of PoolLines
Pool4 == << IntegerObj(7), IntegerObj(7), StringObj("s"), StringObj("s") >>

\* the sitting's compilers are chained through new_with_state: the pool only
\* grows at its end, whether main holds it or the compiler of the line does
C25_Step ==
    /\ ReadLine => IsPrefix(LineCompiler.constants, compiler'.constants)
    /\ (mode = "repl") =>
          /\ IsPrefix(constants, constants')
          /\ IsPrefix(compiler.constants, compiler'.constants)
          /\ IsPrefix(constants, compiler'.constants)

C25_Pool ==
    /\ (mode # "api") =>
          /\ add_constant(compiler, NullObj).constants = Append(compiler.constants, NullObj)
          /\ last_constant(add_constant(compiler, NullObj)) = Len(compiler.constants)
    /\ (session.name = "Pool" /\ compiler.res # "panic") =>
          /\ (line = 0 /\ pc = "run") =>
                /\ compiler.constants = Pool4
                /\ MainOps = << <<"OpConst", <<0>> >>, <<"OpConst", <<1>> >>,
                                <<"OpConst", <<2>> >>, <<"OpConst", <<3>> >>,
                                <<"OpArray", <<4>> >>, <<"OpPop", << >> >> >>
          /\ (line = 2 /\ pc = "read" /\ mode = "repl") =>
                /\ compiler.res = "err"
                /\ constants = Pool4 \o << IntegerObj(7) >>
          /\ (line = 2 /\ pc = "run" /\ mode = "repl") =>
                /\ compiler.constants = Pool4 \o << IntegerObj(7), IntegerObj(7) >>
                /\ MainOps = << <<"OpConst", <<5>> >>, <<"OpPop", << >> >> >>

\* C25: the constant pool is append-only.  add_constant appends and returns
\* the previous length, so the same literal compiled twice gives two entries
\* with distinct indices; over the compile calls of compilers chained through
\* new_with_state every entry keeps its index and value and none is removed
\* or overwritten, also by a compile call that returns an error.
C25_AppendOnly == [](C25_Pool) /\ [][C25_Step]_vars

\* the third line of the sitting, after a line that failed to compile, loads
\* its 7 from index 5
C25_Witness ==
    /\ Done("Pool")
    /\ mode = "repl"
    /\ OkInteger(7)
    /\ constants = Pool4 \o << IntegerObj(7), IntegerObj(7) >>

\* the code is not empty and its last instruction is a return
EndsWithReturn(code) ==
    /\ code # << >>
    /\ code[Len(code)].op \in {"OpReturnValue", "OpReturn"}

\* the code of the function the line in hand compiled last, and what the
\* lines of ReturnLines print
ReturnCodes ==
    << << <<"OpConst", <<0>> >>, <<"OpReturnValue", << >> >> >>,
       << <<"OpReturn", << >> >> >>,
       << <<"OpConst", <<0>> >>, <<"OpSetLocal", <<0>> >>, <<"OpReturn", << >> >> >>,
       << <<"OpConst", <<0>> >>, <<"OpReturnValue", << >> >> >>,
       << <<"OpFalse", << >> >>, <<"OpJumpNotTruthy", <<11>> >>, <<"OpConst", <<0>> >>,
          <<"OpPop", << >> >>, <<"OpJump", <<0>> >>, <<"OpNull", << >> >>,
          <<"OpReturnValue", << >> >> >>,
       << <<"OpGetLocal", <<0>> >>, <<"OpJumpNotTruthy", <<12>> >>, <<"OpConst", <<0>> >>,
          <<"OpReturnValue", << >> >>, <<"OpJump", <<13>> >>, <<"OpNull", << >> >>,
          <<"OpReturnValue", << >> >> >>,
       << <<"OpGetLocal", <<0>> >>, <<"OpJumpNotTruthy", <<12>> >>, <<"OpConst", <<0>> >>,
          <<"OpReturnValue", << >> >>, <<"OpJump", <<13>> >>, <<"OpNull", << >> >>,
          <<"OpReturnValue", << >> >> >> >>
ReturnOutputs ==
    << IntegerV(5), NullV, NullV, IntegerV(7), NullV, IntegerV(1), NullV >>

C26_Ends ==
    /\ (compiler.res = "ok") =>
          \A k \in FunctionConstants : EndsWithReturn(Code(k))
    /\ (pc = "run" /\ vm.res = "running" /\ vm.frame_index >= 2) => LoopCond(vm)
    /\ (session.name = "Returns" /\ pc = "run" /\ mode = "test") =>
          Ops(Len(compiler.constants)) = ReturnCodes[line + 1]
    /\ (session.name = "Returns" /\ pc \in {"read", "exit"} /\ line >= 1) =>
          output = <<"Ok", ReturnOutputs[line]>>

\* C26: the instructions of every compiled function end with OpReturnValue
\* or OpReturn: a last OpPop is overwritten in place by OpReturnValue, and a
\* body that is empty or ends in another instruction gets a trailing
\* OpReturn (the call yields Null); the VM never stands past the end of a
\* callee's instructions while the callee's frame is current.
C26_FunctionEnds == [](C26_Ends) /\ [][RunOk => vm.frame_index = 1]_vars

\* every line of ReturnLines has run
C26_Witness ==
    /\ Done("Returns")
    /\ line = Len(ReturnLines)
    /\ output = <<"Ok", NullV>>

\* control is at the first instruction of the while of a function whose body
\* is that while: offset 0 of a callee's code
AtLoopStart == pc = "run" /\ vm.res = "running" /\ vm.frame_index = 2 /\ Ip(vm) = 0

\* C27: a while evaluates its condition before every iteration, executes the
\* body only when the condition is truthy, and leaves the one value Null when
\* it is falsy, also after zero iterations; sp has the same value every time
\* control reaches the loop start.
C27_While ==
    /\ (session.name \in {"LoopIf", "Loops"} /\ AtLoopStart) =>
          vm.sp = current_frame(vm).base_pointer
                    + current_frame(vm).closure.func.num_locals
    /\ (session.name = "WhileRebind" /\ pc = "run" /\ vm.res = "running" /\ Ip(vm) = 6) =>
          vm.sp = 0
    /\ (session.name = "Loops" /\ pc \in {"read", "exit"} /\ line = 1) => OkInteger(7)
    /\ (session.name = "Loops" /\ pc \in {"read", "exit"} /\ line = 2) =>
          output = <<"Ok", NullV>>
    /\ (session.name = "Jumps" /\ pc \in {"read", "exit"} /\ line = 3) =>
          output = <<"Ok", NullV>>

\* the operand fits the width make writes it in
Fits(operand, width) == operand < 256 ^ width

FitsAll(operands, widths) ==
    /\ Len(operands) = Len(widths)
    /\ \A k \in 1..Len(operands) : Fits(operands[k], widths[k])

\* C28: encoding an instruction rejects, with an error, any operand that does
\* not fit its defined width; it never truncates the operand to its low bits.
C28_MakeRejects ==
    (/\ mode = "code"
     /\ Len(output.operands) = Len(operand_widths(output.op))
     /\ ~FitsAll(output.operands, operand_widths(output.op))) =>
        ~output.made.ok

CodeBytes == current_instruction(compiler)
Listing == disassemble(CodeBytes)

\* emitting the listed instructions again, in order
RECURSIVE Reencode(_)
Reencode(listing) ==
    IF listing = << >> THEN << >>
    ELSE make(Head(listing).op, Head(listing).operands).bytes \o Reencode(Tail(listing))

\* the offset after the instruction of a line of the listing
EndOf(entry) == entry.pos + 1 + Sum(operand_widths(entry.op))

\* C29: for every opcode and operands within its widths, read_operands on the
\* bytes after the opcode byte of make(op, operands) returns the operands and
\* reads as many bytes as the widths add up to; the disassembly of a
\* concatenation of instructions has one line per instruction, the first at
\* offset 0, each next one where the previous instruction ends, the last one
\* ending at len; encoding the listed instructions again gives the same bytes.
C29_RoundTrip ==
    (mode = "code" /\ compiler.res = "ok") =>
        /\ FitsAll(output.operands, operand_widths(output.op)) =>
              /\ output.made.ok
              /\ output.made.bytes[1] = OpByte(output.op)
              /\ cast_u8_to_opcode(output.made.bytes[1]) = output.op
              /\ read_operands(operand_widths(output.op), output.made.bytes, 1)
                    = output.operands
              /\ SumWidths(output.op) = Sum(operand_widths(output.op))
              /\ Len(output.made.bytes) = 1 + SumWidths(output.op)
        /\ Len(Listing) = line
        /\ Listing # << >> => Listing[1].pos = 0
        /\ \A k \in 1..(Len(Listing) - 1) :
              /\ Listing[k + 1].pos = EndOf(Listing[k])
              /\ Listing[k + 1].pos > Listing[k].pos
        /\ Listing # << >> => EndOf(Listing[Len(Listing)]) = Len(CodeBytes)
        /\ Listing = << >> => CodeBytes = << >>
        /\ Reencode(Listing) = CodeBytes

C29_Witness ==
    /\ mode = "code"
    /\ compiler.res = "ok"
    /\ line = MaxCode
    /\ output.op = "OpClosure"
    /\ output.operands = <<65535, 255>>
    /\ Listing[1].op = "OpConst"
    /\ Listing[1].operands = <<256>>
    /\ Listing[2] = [pos |-> 3, op |-> "OpClosure", operands |-> <<65535, 255>>]

\* the line is `a / 0` or `a % 0` for an integer literal a
ByLiteralZero ==
    /\ session.name = "Fold"
    /\ session.op \in {"SLASH", "PERCENT"}
    /\ session.b = 0

\* C30: an infix / or % of two integer literals whose right literal is 0 is
\* not folded: both literals are added to the constant pool and the code is
\* OpConst, OpConst, OpDiv (or OpModulo), so that the VM meets the division.
C30_NoFoldByZero ==
    (ByLiteralZero /\ pc # "read") =>
        /\ compiler.res = "ok"
        /\ compiler.constants = << IntegerObj(session.a), IntegerObj(0) >>
        /\ MainOps = << <<"OpConst", <<0>> >>, <<"OpConst", <<1>> >>,
                        <<InfixOpcode(session.op), << >> >>, <<"OpPop", << >> >> >>
        /\ pc # "exit"

\* the VM is about to run the OpModulo of `1 % 0` on the operands 1 and 0
C30_Witness ==
    /\ session = [name |-> "Fold", op |-> "PERCENT", a |-> 1, b |-> 0]
    /\ pc = "run"
    /\ vm.res = "running"
    /\ Ip(vm) = 6
    /\ cast_u8_to_opcode(current_frame(vm).closure.func.instructions[7]) = "OpModulo"
    /\ vm.sp = 2
    /\ vm.stack[1] = IntegerV(1)
    /\ vm.stack[2] = IntegerV(0)

\* the first operand slot of the current frame: the slots below it are the
\* callee's slot, the arguments and the other locals
OperandBase(m) ==
    current_frame(m).base_pointer + current_frame(m).closure.func.num_locals

\* C31: every expression has net stack effect +1 and every statement 0, also
\* an `if` whose taken block is empty or ends with a let; so, while a frame is
\* current, sp >= base_pointer + num_locals, and OpPop never executes on an
\* empty operand stack, never removes a local slot or the callee's slot.
C31_StackDiscipline ==
    (pc = "run" /\ vm.res = "running" /\ vm.frame_index >= 1) =>
        /\ vm.sp >= OperandBase(vm)
        /\ Dispatch({"OpPop"}) => vm.sp > OperandBase(vm)

\* C32: an identifier that names an enclosing named function N evaluates to
\* N's closure, also inside a function literal nested in N's body:
\* OpCurrentClosure is executed only in a frame whose closure is the function
\* bearing the name (here the one-parameter functions f and countdown), and
\* the nested function that mentions f calls f.
C32_SelfReference ==
    /\ (session.name \in {"SelfInNested", "Countdown"} /\ Dispatch({"OpCurrentClosure"})) =>
          current_frame(vm).closure.func.num_parameters = 1
    /\ (session.name = "SelfInNested" /\ pc \in {"read", "exit"} /\ line = 1) =>
          OkInteger(1)

\* C33: the rewrite to OpTailCall is applied only to a final call whose callee
\* value is the running closure; when the function's name is rebound inside
\* it by a parameter, the final call is an ordinary call of the rebound
\* value, so the program's result is the one it has without the rewrite.
C33_TailCallOfSelf ==
    /\ Dispatch({"OpTailCall"}) =>
          /\ CanPop(vm, Operand8(vm) + 1)
          /\ Top(vm, Operand8(vm)) = ObjectV(ClosureObj(current_frame(vm).closure))
    /\ (session.name = "ShadowedSelf" /\ pc \in {"read", "exit"} /\ line = 1) =>
          OkInteger(9)

\* C34: a self-call in tail position with a number of arguments other than
\* num_parameters ends the run with WrongArity{expected, got}, as the same
\* call in non-tail position does; the body is never restarted with some
\* parameters keeping their previous values.
C34_TailCallArity ==
    /\ Dispatch({"OpTailCall"}) =>
          Operand8(vm) = current_frame(vm).closure.func.num_parameters
    /\ (session.name = "TailArity" /\ pc \in {"read", "exit"} /\ line \in {1, 2}) =>
          /\ output[1] = "VMError"
          /\ output[2] = <<"WrongArity", 2, 1>>

\* C35: after any compile call, successful or failed, the compiler is back at
\* the top level: scope_index = 0, only the main scope, and symbol_table is
\* the outermost table; after an Err inside a function literal a later
\* top-level let is still Global and compiled to OpSetGlobal / OpGetGlobal.
C35_BackAtTopLevel ==
    /\ (mode \in {"test", "repl"} /\ compiler.res \in {"ok", "err"}) =>
          /\ compiler.scope_index = 0
          /\ Len(compiler.scopes) = 1
          /\ Len(compiler.symbol_table) = 1
    /\ mode \in {"test", "repl"} => Len(symbol_table) = 1
    /\ (session.name = "ErrThenLet" /\ line = 1 /\ pc = "run") =>
          MainOps = << <<"OpConst", <<0>> >>, <<"OpSetGlobal", <<0>> >>,
                       <<"OpGetGlobal", <<0>> >>, <<"OpPop", << >> >> >>
    /\ (session.name = "ErrThenLet" /\ line = 2) => OkInteger(1)

\* C36: in every reachable VM state 1 <= frame_index <= 1024 and push_frame
\* never writes outside the frame array: a non-tail recursion that would nest
\* deeper than the frame capacity ends the run with a VMError, not an abort.
C36_FrameBound ==
    (mode \in {"test", "repl"} /\ vm.res # "none") =>
        /\ vm.frame_index <= MAX_FRAMES
        /\ session.name # "TopReturn" => vm.frame_index >= 1
        /\ session.name = "Runaway" => (vm.res # "panic" /\ pc # "aborted")
        /\ (session.name = "Runaway" /\ pc \in {"read", "exit"} /\ line = 1) =>
              output[1] = "VMError"

\* C37: in every reachable VM state 0 <= sp <= 2048: the sp assignments made
\* by a closure call, by OpTailCall and by return never set sp above 2048, no
\* slot at index 2048 or above is written, and no OpSetLocal or OpGetLocal
\* addresses such a slot; a run that needs more slots ends with StackOverflow.
C37_StackBound ==
    (mode \in {"test", "repl"} /\ vm.res # "none") =>
        /\ vm.sp <= STACK_SIZE
        /\ session.name # "TopReturn" => vm.sp >= 0
        /\ Len(vm.stack) <= STACK_SIZE
        /\ Dispatch({"OpSetLocal", "OpGetLocal"}) =>
              current_frame(vm).base_pointer + Operand8(vm) < STACK_SIZE
        /\ (session.name = "DeepLocals" /\ pc \in {"read", "exit"} /\ line = 1) =>
              (output[1] = "VMError" /\ output[2] = <<"StackOverflow">>)

\* C38: a `return e` at the top level runs without abort: OpReturnValue in
\* the main frame computes no negative sp and does not drop frame_index to
\* 0; run returns Ok or a VMError and the value of e is the last popped one.
C38_TopLevelReturn ==
    (session.name = "TopReturn" /\ vm.res # "none") =>
        /\ vm.res # "panic"
        /\ pc # "aborted"
        /\ vm.frame_index >= 1
        /\ vm.sp >= 0
        /\ (pc \in {"read", "exit"} /\ line = 1) =>
              SlotGet(vm.stack, vm.sp) = IntegerV(3)

RECURSIVE AllScopesDescribed(_, _)
AllScopesDescribed(c, k) ==
    IF k > Len(c.scopes) THEN TRUE
    ELSE /\ LastDescribes([c EXCEPT !.scope_index = k - 1])
         /\ AllScopesDescribed(c, k + 1)

\* C39: in every scope with a non-empty buffer, after every emit,
\* remove_last_pop and replace_last_pop_with_return, last_instruction
\* describes the instruction that ends the buffer; whenever remove_last_pop or
\* the tail-call rewrite reads previous_instruction it describes the
\* instruction just before the last one, so remove_last_pop removes exactly
\* one OpPop byte and the rewrite overwrites the OpCall byte of the final
\* self-call.
C39_Peephole ==
    (compiler.res \in {"ok", "err"}) =>
        /\ compiler.bookkeeping
        /\ AllScopesDescribed(compiler, 1)

\* countdown has been compiled: an `if` whose block ends with a return, the
\* final self-call rewritten and the last OpPop replaced by the return
C39_Witness ==
    /\ session = Session("Countdown", 3)
    /\ pc = "run"
    /\ compiler.res = "ok"
    /\ compiler.bookkeeping
    /\ \E k \in FunctionConstants :
          /\ Code(k)[Len(Code(k)) - 1].op = "OpTailCall"
          /\ Code(k)[Len(Code(k))].op = "OpReturnValue"
    /\ current_scope(compiler).last_instruction.opcode = "OpPop"

====
